---- MODULE Spec2Model ----
(***************************************************************************)
(* Model of src/experimental.py: the worker pool of AdvancedSyncSolver     *)
(* (solve, _wait_for_results, SolverSubprocess._run) and the tour          *)
(* construction and arc queries of Track.                                  *)
(***************************************************************************)
EXTENDS Integers, Sequences, FiniteSets, Bags, TLC

VARIABLES
    \* ---- AdvancedSyncSolver / SolverSubprocess ----
    conditions,           \* AdvancedSyncSolver.conditions: the names of the conditions
    number_of_processes,  \* AdvancedSyncSolver.number_of_processes
    point_range,          \* AdvancedSyncSolver.point_range
    task_queue,           \* main -> subprocess: tasks and 'return' sentinels
    result_queue,         \* subprocess -> main: reports
    command_queue,        \* main -> subprocess: 'resume' / 'exit'
    cpc,                  \* position of the main process in solve()
    offset,               \* index (0-based) of test_point in point_range
    put_count,            \* progress of the put / join loop the main process is in
    idle_count,           \* _wait_for_results: reports received so far
    res,                  \* _wait_for_results: joined results of this wait
    results,              \* AdvancedSyncSolver.results
    wpc,                  \* position of each SolverSubprocess in _run()
    wtask,                \* the task a subprocess has taken from the task queue
    w_results,            \* SolverSubprocess._results
    stopped,              \* where a subprocess died or hung ("no" if it did not)
    reports,              \* history: the reports each subprocess has put since the last scoring
    \* ---- Track ----
    pos_data,             \* Track._pos_data: per driver, the position samples
    unsorted_points,      \* Track.unsorted_points
    sorted_points,        \* Track.sorted_points
    excluded_points,      \* Track.excluded_points
    next_point,           \* Track._next_point
    sorted_x,             \* Track.sorted_x
    sorted_y,             \* Track.sorted_y
    tpc,                  \* position in Track(...) / generate_track()
    run,                  \* 1, or 2 when _sort_points is run again on the same input
    first_run,            \* sorted and excluded points of the first of two runs
    query,                \* arguments of the last call of get_points_between
    pnt_range,            \* its returned list
    call,                 \* the last call of another query of Track, with its result
    \* ---- reject_outliers ----
    ro_data,              \* data
    ro_secondary,         \* secondary
    ro_m,                 \* m
    ro_ret,               \* the returned arrays
    \* ---- SectorBorderCondition.for_driver ----
    pos_dates,            \* the Date column of Track._pos_data, per driver
    laps,                 \* data['laps'][is_drv]: the laps of the driver
    fd_point,             \* test_point
    lap_n,                \* number of laps the loop of for_driver has passed
    res_x,                \* res_x
    res_y,                \* res_y
    fpc,                  \* position in for_driver
    cond                  \* the sector border condition whose for_driver runs

solverVars == <<conditions, number_of_processes, point_range, task_queue, result_queue,
                command_queue, cpc, offset, put_count, idle_count, res, results,
                wpc, wtask, w_results, stopped, reports>>

trackVars == <<pos_data, unsorted_points, sorted_points, excluded_points,
               next_point, sorted_x, sorted_y, tpc, run, first_run, query,
               pnt_range>>

outlierVars == <<ro_data, ro_secondary, ro_m, ro_ret>>

conditionVars == <<pos_dates, laps, fd_point, lap_n, res_x, res_y, fpc, cond>>

otherVars == <<call, outlierVars, conditionVars>>

vars == <<solverVars, trackVars, otherVars>>

----------------------------------------------------------------------------
(* Bounds of the model *)

MaxProcesses == 2
MaxRange == 4
MaxSamples == 4
MaxTour == 6
MaxLen == 4
MaxValue == 2
MaxMultiplier == 2
MaxPos == 4
MaxCalls == 2
MaxLine == 12

(* Structures the solver is run with *)

drivers == <<"44", "77">>

\* usable laps of a driver (laps that pass the filter of for_driver)
UsableLaps(drv) == IF drv = "44" THEN 1..1 ELSE 1..2

Processes == 1..number_of_processes

SeqRange(s) == {s[i] : i \in 1..Len(s)}

EmptyDict == <<>>

NoTask == [kind |-> "none"]
ReturnCmd == [kind |-> "return"]
Task(c_index, drv, point) ==
    [kind |-> "task", c_index |-> c_index, drv |-> drv, point |-> point]

----------------------------------------------------------------------------
(* TrackPoint and helpers *)

\* A TrackPoint object; `id` stands for the identity of the object.
TrackPoint(x, y, id) == [x |-> x, y |-> y, id |-> id]

NoPoint == [x |-> 0, y |-> 0, id |-> 0]

Abs(n) == IF n < 0 THEN -n ELSE n

\* TrackPoint.get_sqr_dist
get_sqr_dist(self, other) == Abs(other.x - self.x) + Abs(other.y - self.y)

\* min(list)
Min(list) == CHOOSE m \in SeqRange(list) : \A i \in 1..Len(list) : m <= list[i]

\* list.index(value), counted from 0 as in the source
IndexOf(list, value) ==
    (CHOOSE i \in 1..Len(list) :
        list[i] = value /\ \A j \in 1..(i - 1) : list[j] # value) - 1

\* list[a:b], indices counted from 0 as in the source
Slice(list, a, b) == SubSeq(list, a + 1, b)

\* list.pop(i), i counted from 0: the list without its i-th element
WithoutIndex(list, i) == SubSeq(list, 1, i) \o SubSeq(list, i + 2, Len(list))

\* faulty variant: the list is turned round by one place
ReverseRotated(list) ==
    [i \in 1..Len(list) |-> list[(i % Len(list)) + 1]]

\* list.reverse()
Reverse(list) == [i \in 1..Len(list) |-> list[Len(list) + 1 - i]]

----------------------------------------------------------------------------
(* Track: extraction of the unique points *)

Sample(X, Y, Status) == [X |-> X, Y |-> Y, Status |-> Status]

\* combined.append(self._pos_data[n]) for every driver
RECURSIVE Combined(_)
Combined(frames) ==
    IF frames = <<>> THEN <<>> ELSE Head(frames) \o Combined(Tail(frames))

IsOnTrack(row) == row.Status = "OnTrack"

\* combined[combined['Status'] == 'OnTrack']
OnTrack(frame) == SelectSeq(frame, IsOnTrack)

\* faulty variant: rows kept as they are: duplicates are not dropped
KeepDuplicates(rows) == rows

\* DataFrame.drop_duplicates(): the first row of each value is kept, in order
RECURSIVE DropDuplicates(_)
DropDuplicates(rows) ==
    IF rows = <<>> THEN <<>>
    ELSE LET front == DropDuplicates(SubSeq(rows, 1, Len(rows) - 1))
             last == rows[Len(rows)]
         IN  IF last \in SeqRange(front) THEN front ELSE Append(front, last)

\* combined.filter(items=('X', 'Y'))
Coordinates(frame) == [i \in 1..Len(frame) |-> <<frame[i].X, frame[i].Y>>]

\* _unsorted_points_from_pos_data
UnsortedPointsFromPosData(frames) ==
    LET no_dupl_combined == DropDuplicates(Coordinates(OnTrack(Combined(frames))))
    IN  [i \in 1..Len(no_dupl_combined) |->
            TrackPoint(no_dupl_combined[i][1], no_dupl_combined[i][2], i)]

----------------------------------------------------------------------------
(* Track._sort_points *)

DistanceLimit == 200

Distances(point, points) ==
    [i \in 1..Len(points) |-> get_sqr_dist(point, points[i])]

\* faulty variant: any index of a minimum distance, not the first one
IsSomeIndexMin(distances, i) == distances[i + 1] = Min(distances)

\* index_min = distances.index(min_dst), counted from 0
IsIndexMin(distances, i) == i = IndexOf(distances, Min(distances))

\* faulty variant: an outlier that is dropped instead of being kept in excluded_points
ExcludeDropped(excluded, point) == excluded

\* faulty variant: the outlier takes the place of the outliers found before
ExcludeReplacing(excluded, point) == <<point>>

\* self.excluded_points.append(point)
Exclude(excluded, point) == Append(excluded, point)

\* self._next_point = self.unsorted_points.pop(0)
SortStart ==
    /\ tpc = "new"
    /\ IF unsorted_points = <<>>
       THEN /\ tpc' = "error"      \* pop from empty list: IndexError
            /\ UNCHANGED <<next_point, unsorted_points>>
       ELSE /\ next_point' = Head(unsorted_points)
            /\ unsorted_points' = Tail(unsorted_points)
            /\ tpc' = "sorting"
    /\ UNCHANGED <<pos_data, sorted_points, excluded_points, sorted_x, sorted_y,
                   run, first_run, query, pnt_range, solverVars, otherVars>>

\* one pass of the loop `while self.unsorted_points`
SortStep ==
    /\ tpc = "sorting"
    /\ unsorted_points # <<>>
    /\ LET distances == Distances(next_point, unsorted_points)
           min_dst == Min(distances)
       IN  \E index_min \in 0..(Len(unsorted_points) - 1) :
            /\ IsIndexMin(distances, index_min)
            /\ IF min_dst > DistanceLimit
               THEN /\ excluded_points' = Exclude(excluded_points, next_point)
                    /\ UNCHANGED sorted_points
               ELSE /\ sorted_points' = Append(sorted_points, next_point)
                    /\ UNCHANGED excluded_points
            /\ next_point' = unsorted_points[index_min + 1]
            /\ unsorted_points' = WithoutIndex(unsorted_points, index_min)
    /\ UNCHANGED <<pos_data, sorted_x, sorted_y, tpc, run, first_run, query,
                   pnt_range, solverVars, otherVars>>

\* after the loop: the last point is appended if it is not an outlier
SortLast ==
    /\ tpc = "sorting"
    /\ unsorted_points = <<>>
    /\ IF sorted_points = <<>>
       THEN /\ tpc' = "error"      \* self.sorted_points[-1]: IndexError
            /\ UNCHANGED <<sorted_points, excluded_points>>
       ELSE /\ IF get_sqr_dist(next_point, sorted_points[Len(sorted_points)])
                    <= DistanceLimit
               THEN /\ sorted_points' = Append(sorted_points, next_point)
                    /\ UNCHANGED excluded_points
               ELSE /\ excluded_points' = Exclude(excluded_points, next_point)
                    /\ UNCHANGED sorted_points
            /\ tpc' = "sorted"
    /\ UNCHANGED <<pos_data, unsorted_points, next_point, sorted_x, sorted_y,
                   run, first_run, query, pnt_range, solverVars, otherVars>>

----------------------------------------------------------------------------
(* Track.get_closest_point, Track._determine_track_direction *)

\* faulty variant: of the points at the smallest distance the last one
get_closest_pointLast(point) ==
    sorted_points[CHOOSE i \in 1..Len(sorted_points) :
        \A j \in 1..Len(sorted_points) :
            \/ get_sqr_dist(sorted_points[i], point)
                 < get_sqr_dist(sorted_points[j], point)
            \/ /\ get_sqr_dist(sorted_points[i], point)
                    = get_sqr_dist(sorted_points[j], point)
               /\ j <= i]

\* get_closest_point
get_closest_point(point) ==
    LET distances == [i \in 1..Len(sorted_points) |->
                        get_sqr_dist(sorted_points[i], point)]
    IN  sorted_points[IndexOf(distances, Min(distances)) + 1]

\* on_track.iloc[100] and on_track.iloc[101]: the model's position series are
\* short, the two reference samples are taken at this index and the next
RefIndex == 1

\* faulty variant: only the first driver is tried
RefDriverFirstOnly(n) ==
    IF n > Len(pos_data) THEN 0
    ELSE IF Len(OnTrack(pos_data[n])) >= RefIndex + 2 THEN n
    ELSE 0

\* the loop over the drivers: the index (from 1) of the first driver whose
\* on-track samples reach RefIndex + 1; 0 if drivers[n] runs off the list
RECURSIVE RefDriver(_)
RefDriver(n) ==
    IF n > Len(pos_data) THEN 0
    ELSE IF Len(OnTrack(pos_data[n])) >= RefIndex + 2 THEN n
    ELSE RefDriver(n + 1)

\* faulty variant: the difference of the indices is not looked at
MustReverseAlways(idx1, idx2) == idx1 > idx2

\* idx1 > idx2 and not (idx1 - idx2) > 0.9 * len(self.sorted_points)
MustReverse(idx1, idx2) ==
    idx1 > idx2 /\ ~(10 * (idx1 - idx2) > 9 * Len(sorted_points))

\* _determine_track_direction
DetermineTrackDirection ==
    /\ tpc = "sorted"
    /\ run = 1
    /\ LET n == RefDriver(1)
       IN  IF n = 0
           THEN /\ tpc' = "error"      \* drivers[n]: IndexError
                /\ UNCHANGED sorted_points
           ELSE LET on_track == OnTrack(pos_data[n])
                    p1 == on_track[RefIndex + 1]
                    p2 == on_track[RefIndex + 2]
                    point1 == get_closest_point(TrackPoint(p1.X, p1.Y, 0))
                    point2 == get_closest_point(TrackPoint(p2.X, p2.Y, 0))
                    idx1 == IndexOf(sorted_points, point1)
                    idx2 == IndexOf(sorted_points, point2)
                IN  /\ sorted_points' = IF MustReverse(idx1, idx2)
                                        THEN Reverse(sorted_points)
                                        ELSE sorted_points
                    /\ tpc' = "directed"
    /\ UNCHANGED <<pos_data, unsorted_points, excluded_points, next_point,
                   sorted_x, sorted_y, run, first_run, query, pnt_range,
                   solverVars, otherVars>>

\* generate_track: sorted_x and sorted_y are filled from sorted_points
FillCoordinates ==
    /\ tpc = "directed"
    /\ sorted_x' = [i \in 1..Len(sorted_points) |-> sorted_points[i].x]
    /\ sorted_y' = [i \in 1..Len(sorted_points) |-> sorted_points[i].y]
    /\ tpc' = "ready"
    /\ UNCHANGED <<pos_data, unsorted_points, sorted_points, excluded_points,
                   next_point, run, first_run, query, pnt_range, solverVars, otherVars>>

\* Track(pos_frame) built a second time from the same position data, for a
\* second run of _sort_points
SecondRun ==
    /\ tpc = "sorted"
    /\ run = 1
    /\ run' = 2
    /\ first_run' = [sorted |-> sorted_points, excluded |-> excluded_points]
    /\ unsorted_points' = UnsortedPointsFromPosData(pos_data)
    /\ sorted_points' = <<>>
    /\ excluded_points' = <<>>
    /\ next_point' = NoPoint
    /\ tpc' = "new"
    /\ UNCHANGED <<pos_data, sorted_x, sorted_y, query, pnt_range, solverVars, otherVars>>

----------------------------------------------------------------------------
(* Track.get_points_between *)

\* faulty variant: an index difference of exactly half the tour also counts
\* as the short way
ShortIsInnerOrHalf(i1, i2) == 2 * Abs(i1 - i2) <= Len(sorted_points)

\* abs(i1 - i2) < 0.5 * len(self.sorted_points)
ShortIsInner(i1, i2) == 2 * Abs(i1 - i2) < Len(sorted_points)

MinOf(a, b) == IF a < b THEN a ELSE b
MaxOf(a, b) == IF a > b THEN a ELSE b

\* self.sorted_points[min(i1, i2)+1: max(i1, i2)]
InnerPart(i1, i2) == Slice(sorted_points, MinOf(i1, i2) + 1, MaxOf(i1, i2))

\* self.sorted_points[:min(i1, i2)]
FirstPart(i1, i2) == Slice(sorted_points, 0, MinOf(i1, i2))

\* faulty variant: the tail slice taken one element too late
SecondPartLate(i1, i2) ==
    Slice(sorted_points, MaxOf(i1, i2) + 2, Len(sorted_points))

\* self.sorted_points[max(i1, i2)+1:]
SecondPart(i1, i2) == Slice(sorted_points, MaxOf(i1, i2) + 1, Len(sorted_points))

\* faulty variant: the wrapping arc is never reversed
WrapArcNotReversed(i1, i2, point1, point2, include_ref) ==
    IF i1 > i2
    THEN (IF include_ref THEN <<point1>> ELSE <<>>) \o SecondPart(i1, i2)
         \o FirstPart(i1, i2) \o (IF include_ref THEN <<point2>> ELSE <<>>)
    ELSE (IF include_ref THEN <<point2>> ELSE <<>>) \o SecondPart(i1, i2)
         \o FirstPart(i1, i2) \o (IF include_ref THEN <<point1>> ELSE <<>>)

\* "the harder way": the first and last part of the list but not the middle
WrapArc(i1, i2, point1, point2, include_ref) ==
    IF i1 > i2
    THEN (IF include_ref THEN <<point1>> ELSE <<>>) \o SecondPart(i1, i2)
         \o FirstPart(i1, i2) \o (IF include_ref THEN <<point2>> ELSE <<>>)
    ELSE Reverse((IF include_ref THEN <<point2>> ELSE <<>>) \o SecondPart(i1, i2)
         \o FirstPart(i1, i2) \o (IF include_ref THEN <<point1>> ELSE <<>>))

\* "the easy way": the slice between the two indices
InnerArc(i1, i2, point1, point2, include_ref) ==
    IF include_ref
    THEN IF i1 < i2
         THEN <<point1>> \o InnerPart(i1, i2) \o <<point2>>
         ELSE <<point2>> \o InnerPart(i1, i2) \o <<point1>>
    ELSE InnerPart(i1, i2)

\* whether the call takes the direct slice (and not the wrapping arc)
TakesInner(i1, i2, short) ==
    (short /\ ShortIsInner(i1, i2)) \/ (~short /\ ~ShortIsInner(i1, i2))

\* get_points_between
get_points_between(point1, point2, short, include_ref) ==
    LET i1 == IndexOf(sorted_points, point1)
        i2 == IndexOf(sorted_points, point2)
    IN  IF TakesInner(i1, i2, short)
        THEN InnerArc(i1, i2, point1, point2, include_ref)
        ELSE WrapArc(i1, i2, point1, point2, include_ref)

NoQuery == [called |-> FALSE]

\* a call of get_points_between with two points of the tour
GetPointsBetween ==
    /\ tpc = "ready"
    /\ \E point1 \in SeqRange(sorted_points), point2 \in SeqRange(sorted_points),
          short \in BOOLEAN, include_ref \in BOOLEAN :
        /\ query' = [called |-> TRUE, point1 |-> point1, point2 |-> point2,
                     short |-> short, include_ref |-> include_ref]
        /\ pnt_range' = get_points_between(point1, point2, short, include_ref)
    /\ UNCHANGED <<pos_data, unsorted_points, sorted_points, excluded_points,
                   next_point, sorted_x, sorted_y, tpc, run, first_run,
                   solverVars, otherVars>>

----------------------------------------------------------------------------
(* reject_outliers *)

\* 2 * np.median(values) of a non-empty array: twice the middle element of the
\* sorted values, or the sum of the two middle elements
Median2(values) ==
    LET RECURSIVE Sorted(_)
        Sorted(list) ==
            IF list = <<>> THEN <<>>
            ELSE LET i == IndexOf(list, Min(list))
                 IN  <<list[i + 1]>> \o Sorted(WithoutIndex(list, i))
        s == Sorted(values)
        n == Len(s)
    IN  IF n % 2 = 1 THEN 2 * s[(n + 1) \div 2]
        ELSE s[n \div 2] + s[n \div 2 + 1]

\* d = np.abs(data - np.median(data)), held as 2 * d
Deviations2(data) == [i \in 1..Len(data) |-> Abs(2 * data[i] - Median2(data))]

\* mdev = np.median(d), held as 4 * mdev
MedianDeviation4(data) == Median2(Deviations2(data))

\* faulty variant: the secondary array is returned as it was passed
MaskedNot(array, mask) == array

\* array[mask] for an array of booleans: the elements where the mask is true,
\* in their order
Masked(array, mask) ==
    LET RECURSIVE Front(_)
        Front(n) ==
            IF n = 0 THEN <<>>
            ELSE IF mask[n] THEN Append(Front(n - 1), array[n])
            ELSE Front(n - 1)
    IN  Front(Len(array))

\* secondary[i][s < m]
MaskedSecondary(array, mask) == Masked(array, mask)

\* reject_outliers(data, *secondary, m=m).  With a median deviation other than
\* zero s = d/mdev is an array and s < m a mask of booleans (d/mdev < m is
\* decided as 2 * (2d) < m * (4 mdev)).  With a median deviation of zero s is
\* the number 0. and s < m one boolean: array[True] is the array as the one
\* row of a two-dimensional array, array[False] a two-dimensional array with
\* no row.
reject_outliers(data, secondary, m) ==
    IF data = <<>>
    THEN [ndim |-> 1, data |-> <<>>,
          secondary |-> [k \in 1..Len(secondary) |-> <<>>]]
    ELSE IF MedianDeviation4(data) # 0
    THEN LET mask == [i \in 1..Len(data) |->
                        2 * Deviations2(data)[i] < m * MedianDeviation4(data)]
         IN  [ndim |-> 1, data |-> Masked(data, mask),
              secondary |-> [k \in 1..Len(secondary) |->
                                MaskedSecondary(secondary[k], mask)]]
    ELSE IF 0 < m
    THEN [ndim |-> 2, data |-> <<data>>,
          secondary |-> [k \in 1..Len(secondary) |-> <<secondary[k]>>]]
    ELSE [ndim |-> 2, data |-> <<>>,
          secondary |-> [k \in 1..Len(secondary) |-> <<>>]]

NoReturn == [called |-> FALSE, ndim |-> 0, data |-> <<>>, secondary |-> <<>>]

OutliersUnused ==
    /\ ro_data = <<>>
    /\ ro_secondary = <<>>
    /\ ro_m = 0
    /\ ro_ret = NoReturn

\* the arguments of a call of reject_outliers: a primary array of at most
\* MaxLen values, up to two secondary arrays of the same length, a multiplier
OutliersArguments ==
    /\ \E n \in 0..MaxLen :
        \E data \in [1..n -> 0..MaxValue], k \in 0..2 :
            /\ ro_data = data
            /\ ro_secondary =
                   SubSeq(<<[i \in 1..n |-> 10 * i], Reverse(data)>>, 1, k)
    /\ ro_m \in 0..MaxMultiplier
    /\ ro_ret = NoReturn

\* the call of reject_outliers
RejectOutliers ==
    /\ ~ro_ret.called
    /\ ro_ret' = [called |-> TRUE]
                  @@ reject_outliers(ro_data, ro_secondary, ro_m)
    /\ UNCHANGED <<ro_data, ro_secondary, ro_m, solverVars, trackVars, call,
                   conditionVars>>

----------------------------------------------------------------------------
(* Track: initial states *)

\* the coordinates of the position samples: three neighbouring points, a
\* fourth one step further and one far away from all others
SampleCoordinates ==
    {<<0, 0>>, <<100, 0>>, <<100, 100>>, <<300, 100>>, <<700, 0>>}

SampleKinds ==
    {Sample(c[1], c[2], "OnTrack") : c \in SampleCoordinates}
    \cup {Sample(100, 0, "OffTrack")}

\* Track(pos_frame) where none is built
TrackUnused ==
    /\ pos_data = <<>>
    /\ unsorted_points = <<>>
    /\ sorted_points = <<>>
    /\ excluded_points = <<>>
    /\ next_point = NoPoint
    /\ sorted_x = <<>>
    /\ sorted_y = <<>>
    /\ tpc = "unused"
    /\ run = 1
    /\ first_run = [sorted |-> <<>>, excluded |-> <<>>]
    /\ query = NoQuery
    /\ pnt_range = <<>>

\* Track.__init__ for the given position data
TrackBuilt(frames) ==
    /\ pos_data = frames
    /\ unsorted_points = UnsortedPointsFromPosData(frames)
    /\ sorted_points = <<>>
    /\ excluded_points = <<>>
    /\ next_point = NoPoint
    /\ sorted_x = <<>>
    /\ sorted_y = <<>>
    /\ tpc = "new"
    /\ run = 1
    /\ first_run = [sorted |-> <<>>, excluded |-> <<>>]
    /\ query = NoQuery
    /\ pnt_range = <<>>

\* position data of two drivers: any series of at most MaxSamples samples,
\* split between the first and the second driver
TrackInit ==
    \E n \in 0..MaxSamples :
        \E stream \in [1..n -> SampleKinds], k \in 0..n :
            TrackBuilt(<<SubSeq(stream, 1, k), SubSeq(stream, k + 1, n)>>)

\* one driver who drove along n points spaced 100 apart, and one who did not
\* drive
LineFrames(n) ==
    <<[i \in 1..n |-> Sample(100 * (i - 1), 0, "OnTrack")], <<>>>>

LineInit == \E n \in (RefIndex + 2)..MaxTour : TrackBuilt(LineFrames(n))

\* the 8 points of a closed square tour, neighbours 100 apart, in tour order
SquarePoints ==
    <<<<0, 0>>, <<100, 0>>, <<200, 0>>, <<200, 100>>,
      <<200, 200>>, <<100, 200>>, <<0, 200>>, <<0, 100>>>>

\* the position samples of one driver: a walk around the square from its k-th
\* point, forwards or backwards, with a sample far from the square put after
\* `o` samples of the walk, and a second sample at the j-th point put in front
\* of the series or at its end
SquareStream(k, forwards, o, j, front) ==
    LET at(n) == Sample(SquarePoints[n][1], SquarePoints[n][2], "OnTrack")
        walk == [i \in 1..8 |->
                    at(IF forwards THEN ((k + i - 2) % 8) + 1
                       ELSE ((k - i + 8) % 8) + 1)]
        with_far == SubSeq(walk, 1, o) \o <<Sample(1000, 1000, "OnTrack")>>
                    \o SubSeq(walk, o + 1, 8)
    IN  IF front THEN <<at(j)>> \o with_far ELSE with_far \o <<at(j)>>

\* Track(pos_frame) for a square walk with the far sample at any place
SquareInit ==
    \E k \in 1..8, forwards \in BOOLEAN, o \in 0..8, j \in 1..8, front \in BOOLEAN :
        TrackBuilt(<<SquareStream(k, forwards, o, j, front), <<>>>>)

\* Track(pos_frame) for a square walk that starts with the far sample
SquareTourInit ==
    \E k \in 1..8, forwards \in BOOLEAN :
        TrackBuilt(<<SquareStream(k, forwards, 0, k, FALSE), <<>>>>)

----------------------------------------------------------------------------
(* Conditions *)

ResultKeys(name) ==
    IF name = "AllSectors" THEN {"x1", "y1", "x2", "y2", "x3", "y3"}
    ELSE {"x", "y"}

\* One sample: the coordinate `key` derived for lap `lap` of `drv` at `point`.
ResultSample(c_index, key, drv, point, lap) ==
    [c_index |-> c_index, key |-> key, drv |-> drv, point |-> point, lap |-> lap]

LapList(S) == [i \in 1..Cardinality(S) |-> i]

\* for_driver: one sample per usable lap and result key, in lap order
for_driver(c_index, drv, point) ==
    [key \in ResultKeys(conditions[c_index]) |->
        [i \in 1..Cardinality(UsableLaps(drv)) |->
            ResultSample(c_index, key, drv, point, LapList(UsableLaps(drv))[i])]]

\* generate_results: statistics of the joined lists, with the test point.
\* mean and mad do not depend on the order of the list: each is kept as the
\* number of samples and the samples it was computed from.
generate_results(data, test_point) ==
    [stat \in {"mean", "mad"} |->
        [key \in DOMAIN data |->
            [n |-> Len(data[key]), of |-> SeqRange(data[key])]]]
    @@ [stat \in {"tx"} |-> test_point]

----------------------------------------------------------------------------
(* SolverSubprocess *)

\* faulty variant: _add_result that replaces the stored lists instead of extending them
AddResultOverwrite(acc, name, data) ==
    [c \in DOMAIN acc \cup {name} |-> IF c = name THEN data ELSE acc[c]]

\* faulty variant: _add_result that extends the x lists at the end and the
\* other lists at the front
AddResultMixed(acc, name, data) ==
    IF name \notin DOMAIN acc
    THEN [c \in DOMAIN acc \cup {name} |-> IF c = name THEN data ELSE acc[c]]
    ELSE [acc EXCEPT ![name] =
            [key \in DOMAIN acc[name] |->
                IF key \in {"x", "x1", "x2", "x3"}
                THEN acc[name][key] \o data[key]
                ELSE data[key] \o acc[name][key]]]

\* _add_result
AddResult(acc, name, data) ==
    IF name \notin DOMAIN acc
    THEN [c \in DOMAIN acc \cup {name} |-> IF c = name THEN data ELSE acc[c]]
    ELSE [acc EXCEPT ![name] =
            [key \in DOMAIN acc[name] |->
                IF key \in DOMAIN data THEN acc[name][key] \o data[key]
                ELSE acc[name][key]]]

\* _run: task = self._task_queue.get()
GetTask(w) ==
    /\ wpc[w] = "get_task"
    /\ task_queue # <<>>
    /\ wtask' = [wtask EXCEPT ![w] = Head(task_queue)]
    /\ task_queue' = Tail(task_queue)
    /\ wpc' = [wpc EXCEPT ![w] =
                IF Head(task_queue) = ReturnCmd THEN "report" ELSE "process"]
    /\ UNCHANGED <<conditions, reports, number_of_processes, point_range, result_queue, command_queue,
                   cpc, offset, put_count, idle_count, res, results, w_results,
                   stopped,
                   trackVars, otherVars>>

\* _run: res = condition.for_driver(drv, point); self._add_result(c_index, res)
ProcessTask(w) ==
    /\ wpc[w] = "process"
    /\ w_results' = [w_results EXCEPT ![w] =
            AddResult(w_results[w], wtask[w].c_index,
                      for_driver(wtask[w].c_index, wtask[w].drv, wtask[w].point))]
    /\ wtask' = [wtask EXCEPT ![w] = NoTask]
    /\ wpc' = [wpc EXCEPT ![w] = "get_task"]
    /\ UNCHANGED <<conditions, reports, number_of_processes, point_range, task_queue, result_queue,
                   command_queue, cpc, offset, put_count, idle_count, res,
                   results, stopped,
                   trackVars, otherVars>>

\* faulty variant: _run that goes on pulling tasks without waiting for a command
AfterReportNoIdle == "get_task"

\* where _run continues after it has put its results
AfterReport == "get_cmd"

\* _run: self._result_queue.put(self._results); self._results = dict()
Report(w) ==
    /\ wpc[w] = "report"
    /\ result_queue' = Append(result_queue, w_results[w])
    /\ w_results' = [w_results EXCEPT ![w] = EmptyDict]
    /\ wtask' = [wtask EXCEPT ![w] = NoTask]
    /\ wpc' = [wpc EXCEPT ![w] = AfterReport]
    /\ reports' = [reports EXCEPT ![w] = @ + 1]
    /\ UNCHANGED <<conditions, number_of_processes, point_range, task_queue, command_queue,
                   cpc, offset, put_count, idle_count, res, results, stopped,
                   trackVars, otherVars>>

\* faulty variant: _run that pulls tasks again whatever the command is
GetCommandResumes(w) ==
    /\ wpc[w] = "get_cmd"
    /\ command_queue # <<>>
    /\ command_queue' = Tail(command_queue)
    /\ wpc' = [wpc EXCEPT ![w] = "get_task"]
    /\ UNCHANGED <<conditions, reports, number_of_processes, point_range, task_queue, result_queue,
                   cpc, offset, put_count, idle_count, res, results, wtask,
                   w_results, stopped,
                   trackVars, otherVars>>

\* _run: cmd = self._command_queue.get(); 'exit' returns, 'resume' continues
GetCommand(w) ==
    /\ wpc[w] = "get_cmd"
    /\ command_queue # <<>>
    /\ command_queue' = Tail(command_queue)
    /\ wpc' = [wpc EXCEPT ![w] =
                IF Head(command_queue) = "exit" THEN "exited" ELSE "get_task"]
    /\ UNCHANGED <<conditions, reports, number_of_processes, point_range, task_queue, result_queue,
                   cpc, offset, put_count, idle_count, res, results, wtask,
                   w_results, stopped,
                   trackVars, otherVars>>

----------------------------------------------------------------------------
(* AdvancedSyncSolver *)

NumTasks == Len(conditions) * Len(drivers)

\* the k-th task (k = 0, 1, ...) of the nested loop over conditions and drivers
NthTask(k, test_point) ==
    Task((k \div Len(drivers)) + 1, drivers[(k % Len(drivers)) + 1], test_point)

test_point == point_range[offset + 1]

\* for test_point in self.point_range[0::3]
NextOffset(o) == o + 3

\* faulty variant: the lists of a report replace the lists joined so far
JoinResultsReplace(joined, report) ==
    [name \in DOMAIN joined \cup DOMAIN report |->
        IF name \in DOMAIN report THEN report[name] ELSE joined[name]]

\* _wait_for_results: join the lists of one report into the joined results
JoinResults(joined, report) ==
    [name \in DOMAIN joined \cup DOMAIN report |->
        IF name \in DOMAIN joined
        THEN IF name \in DOMAIN report
             THEN [key \in DOMAIN joined[name] |->
                     IF key \in DOMAIN report[name]
                     THEN joined[name][key] \o report[name][key]
                     ELSE joined[name][key]]
             ELSE joined[name]
        ELSE report[name]]

\* faulty variant: a wait that returns one report early
AllIdleEarly(count) == count = number_of_processes - 1

\* _wait_for_results: while idle_count != self.number_of_processes
AllIdle(count) == count = number_of_processes

\* faulty variant: one exit command too few
ExitCommandsShort == number_of_processes - 1

\* faulty variant: one exit command too many
ExitCommandsExtra == number_of_processes + 1

\* _queue_return_command / _resume_all / _exit_all: range(self.number_of_processes)
ReturnCommands == number_of_processes
ResumeCommands == number_of_processes
ExitCommands == number_of_processes

\* solve: self.task_queue.put((c_index, driver, test_point))
PutTask ==
    /\ cpc = "put_tasks"
    /\ task_queue' = Append(task_queue, NthTask(put_count, test_point))
    /\ IF put_count + 1 = NumTasks
       THEN cpc' = "put_returns" /\ put_count' = 0
       ELSE cpc' = cpc /\ put_count' = put_count + 1
    /\ UNCHANGED <<conditions, reports, number_of_processes, point_range, result_queue, command_queue,
                   offset, idle_count, res, results, wpc, wtask, w_results,
                   stopped,
                   trackVars, otherVars>>

\* _queue_return_command, then the first lines of _wait_for_results
PutReturn ==
    /\ cpc \in {"put_returns", "final_returns"}
    /\ task_queue' = Append(task_queue, ReturnCmd)
    /\ IF put_count + 1 >= ReturnCommands
       THEN /\ cpc' = IF cpc = "put_returns" THEN "wait" ELSE "final_wait"
            /\ put_count' = 0
            /\ idle_count' = 0
            /\ res' = EmptyDict
       ELSE /\ cpc' = cpc
            /\ put_count' = put_count + 1
            /\ UNCHANGED <<idle_count, res>>
    /\ UNCHANGED <<conditions, reports, number_of_processes, point_range, result_queue, command_queue,
                   offset, results, wpc, wtask, w_results, stopped,
                   trackVars, otherVars>>

\* _wait_for_results: res = self.result_queue.get(), join, idle_count += 1
WaitForResults ==
    /\ cpc \in {"wait", "final_wait"}
    /\ result_queue # <<>>
    /\ result_queue' = Tail(result_queue)
    /\ res' = JoinResults(res, Head(result_queue))
    /\ idle_count' = idle_count + 1
    /\ cpc' = IF AllIdle(idle_count + 1)
              THEN (IF cpc = "wait" THEN "score" ELSE "exit_all")
              ELSE cpc
    /\ UNCHANGED <<conditions, reports, number_of_processes, point_range, task_queue, command_queue,
                   offset, put_count, results, wpc, wtask, w_results, stopped,
                   trackVars, otherVars>>

\* solve: for condition in self.conditions, in their order:
\* results[condition.name][key].append(proc_res[key]), or a new list
AppendResults(all, joined, point) ==
    LET RECURSIVE Upto(_)
        Upto(c_index) ==
            IF c_index = 0 THEN all
            ELSE LET before == Upto(c_index - 1)
                     name == conditions[c_index]
                     proc_res == generate_results(joined[c_index], point)
                 IN  [before EXCEPT ![name] =
                        [key \in DOMAIN before[name] \cup DOMAIN proc_res |->
                            IF key \in DOMAIN before[name]
                            THEN (IF key \in DOMAIN proc_res
                                  THEN Append(before[name][key], proc_res[key])
                                  ELSE before[name][key])
                            ELSE <<proc_res[key]>>]]
    IN  Upto(Len(conditions))

\* solve: the scoring of one test point
Score ==
    /\ cpc = "score"
    /\ IF \A c_index \in 1..Len(conditions) : c_index \in DOMAIN res
       THEN /\ results' = AppendResults(results, res, test_point)
            /\ cpc' = "resume"
       ELSE /\ cpc' = "error"    \* res[c_index] raises KeyError
            /\ UNCHANGED results
    /\ put_count' = 0
    /\ reports' = [w \in Processes |-> 0]
    /\ UNCHANGED <<conditions, number_of_processes, point_range, task_queue, result_queue,
                   command_queue, offset, idle_count, res, wpc, wtask, w_results,
                   stopped,
                   trackVars, otherVars>>

\* _resume_all, then the next test point of the loop (or the end of the loop)
PutResume ==
    /\ cpc = "resume"
    /\ command_queue' = Append(command_queue, "resume")
    /\ IF put_count + 1 >= ResumeCommands
       THEN /\ put_count' = 0
            /\ offset' = NextOffset(offset)
            /\ cpc' = IF NextOffset(offset) < Len(point_range)
                      THEN "put_tasks" ELSE "final_returns"
       ELSE /\ put_count' = put_count + 1
            /\ UNCHANGED <<cpc, offset>>
    /\ UNCHANGED <<conditions, reports, number_of_processes, point_range, task_queue, result_queue,
                   idle_count, res, results, wpc, wtask, w_results, stopped,
                   trackVars, otherVars>>

\* _exit_all
PutExit ==
    /\ cpc = "exit_all"
    /\ command_queue' = Append(command_queue, "exit")
    /\ IF put_count + 1 >= ExitCommands
       THEN cpc' = "join_all" /\ put_count' = 0
       ELSE cpc' = cpc /\ put_count' = put_count + 1
    /\ UNCHANGED <<conditions, reports, number_of_processes, point_range, task_queue, result_queue,
                   offset, idle_count, res, results, wpc, wtask, w_results,
                   stopped,
                   trackVars, otherVars>>

\* a process can be joined once it has ended (returned from _run, or died)
Ended(w) == wpc[w] \in {"exited", "dead"}

\* _join_all: process.join() for each subprocess in turn
Join ==
    /\ cpc = "join_all"
    /\ Ended(put_count + 1)
    /\ IF put_count + 1 = number_of_processes
       THEN cpc' = "done" /\ put_count' = 0
       ELSE cpc' = cpc /\ put_count' = put_count + 1
    /\ UNCHANGED <<conditions, reports, number_of_processes, point_range, task_queue, result_queue,
                   command_queue, offset, idle_count, res, results, wpc, wtask,
                   w_results, stopped,
                   trackVars, otherVars>>

\* a subprocess dies (an exception in _run, a kill) or hangs: it takes no
\* further step (one failure per run of solve)
Stop(w) ==
    /\ \A v \in Processes : stopped[v] = "no"
    /\ wpc[w] \notin {"exited", "dead", "hung"}
    /\ cpc # "done"
    /\ stopped' = [stopped EXCEPT ![w] = wpc[w]]
    /\ \E how \in {"dead", "hung"} : wpc' = [wpc EXCEPT ![w] = how]
    /\ UNCHANGED <<conditions, reports, number_of_processes, point_range, task_queue, result_queue,
                   command_queue, cpc, offset, put_count, idle_count, res,
                   results, wtask, w_results,
                   trackVars, otherVars>>

\* no sector border condition is being evaluated
NoCondition == [name |-> "none"]

NoCall == [op |-> "none"]

\* no condition is being evaluated
ConditionUnused ==
    /\ pos_dates = <<>>
    /\ laps = <<>>
    /\ fd_point = NoPoint
    /\ lap_n = 0
    /\ res_x = <<>>
    /\ res_y = <<>>
    /\ fpc = "unused"
    /\ cond = NoCondition

OthersUnused == call = NoCall /\ OutliersUnused /\ ConditionUnused

\* solve() after the subprocesses have been started, before the first test point
SolverStarted ==
    /\ number_of_processes \in 1..MaxProcesses
    /\ point_range \in {[i \in 1..n |-> i] : n \in 0..MaxRange}
    /\ task_queue = <<>>
    /\ result_queue = <<>>
    /\ command_queue = <<>>
    /\ cpc = IF Len(point_range) > 0 THEN "put_tasks" ELSE "final_returns"
    /\ offset = 0
    /\ put_count = 0
    /\ idle_count = 0
    /\ res = EmptyDict
    /\ results = [name \in SeqRange(conditions) |-> EmptyDict]
    /\ wpc = [w \in Processes |-> "get_task"]
    /\ wtask = [w \in Processes |-> NoTask]
    /\ w_results = [w \in Processes |-> EmptyDict]
    /\ stopped = [w \in Processes |-> "no"]
    /\ reports = [w \in Processes |-> 0]
    /\ TrackUnused
    /\ OthersUnused

\* two conditions were added with add_condition
SolverInit == conditions = <<"StartFinish", "AllSectors">> /\ SolverStarted

Worker(w) == GetTask(w) \/ ProcessTask(w) \/ Report(w) \/ GetCommand(w)

Main == PutTask \/ PutReturn \/ WaitForResults \/ Score \/ PutResume
        \/ PutExit \/ Join

Init == SolverInit

Next == Main \/ \E w \in Processes : Worker(w)

Spec == Init /\ [][Next]_vars

\* The operating system schedules every process; a blocking get returns once
\* an item is available.
SpecFair ==
    /\ Spec
    /\ WF_vars(Main)
    /\ \A w \in 1..MaxProcesses : WF_vars(w \in Processes /\ Worker(w))

\* add_condition called twice: with two conditions, or twice with the same one
InitConditions ==
    /\ conditions \in {<<"StartFinish", "AllSectors">>,
                       <<"StartFinish", "StartFinish">>}
    /\ SolverStarted

\* solve() for either list of conditions
SpecConditions == InitConditions /\ [][Next]_vars

NextCrash == Next \/ \E w \in Processes : Stop(w)

\* solve() with subprocesses that may die or hang at any point
SpecCrash == Init /\ [][NextCrash]_vars

\* the subprocess pool where solve() is not run
SolverUnused ==
    /\ conditions = <<>>
    /\ number_of_processes = 1
    /\ point_range = <<>>
    /\ task_queue = <<>>
    /\ result_queue = <<>>
    /\ command_queue = <<>>
    /\ cpc = "unused"
    /\ offset = 0
    /\ put_count = 0
    /\ idle_count = 0
    /\ res = EmptyDict
    /\ results = EmptyDict
    /\ wpc = [w \in 1..1 |-> "unused"]
    /\ wtask = [w \in 1..1 |-> NoTask]
    /\ w_results = [w \in 1..1 |-> EmptyDict]
    /\ stopped = [w \in 1..1 |-> "no"]
    /\ reports = [w \in 1..1 |-> 0]

----------------------------------------------------------------------------
(* SectorBorderCondition._get_test_date, Track.interpolate_pos_from_time and  *)
(* StartFinishCondition.for_driver on position data with dates.  Dates and    *)
(* times are whole seconds counted from session_start_date.                   *)

\* pd.to_timedelta(10, "s")
WindowSeconds == 10

\* a missing value (NaN, NaT) in the laps data
Null == -1

None == [kind |-> "None"]

\* the row of a driver's position data as TrackPoint(row.X, row.Y, row.Date)
RowPoint(d, i) ==
    [x |-> pos_data[d][i].X, y |-> pos_data[d][i].Y, date |-> pos_dates[d][i]]

\* faulty variant: None only if there are points on neither side
NoBracketBoth(pos_points, neg_points) == pos_points = {} /\ neg_points = {}

\* (not neg_distances) or (not pos_distances)
NoBracket(pos_points, neg_points) == pos_points = {} \/ neg_points = {}

\* _get_test_date: None, or the date interpolated between the closest point
\* with a smaller x and the closest point with an x not smaller than that of
\* test_point, within +-delta_t of the end of the lap; the share
\* sqrt(dist_test_a) / sqrt(dist_a_b) of the time between the two points is
\* cut to whole seconds
get_test_date(lap, d, point) ==
    LET approx_time == lap.Time
        pos_range == {i \in 1..Len(pos_data[d]) :
                        /\ approx_time - WindowSeconds < pos_dates[d][i]
                        /\ pos_dates[d][i] < approx_time + WindowSeconds}
        pos_points == {i \in pos_range : pos_data[d][i].X < point.x}
        neg_points == pos_range \ pos_points
        Isqrt(n) == CHOOSE r \in 0..n : r * r <= n /\ n < (r + 1) * (r + 1)
        \* min_index: the first row of `rows` with the smallest distance
        ClosestRow(rows) ==
            CHOOSE i \in rows :
                \A j \in rows :
                    \/ get_sqr_dist(point, RowPoint(d, i))
                         < get_sqr_dist(point, RowPoint(d, j))
                    \/ /\ get_sqr_dist(point, RowPoint(d, i))
                            = get_sqr_dist(point, RowPoint(d, j))
                       /\ i <= j
    IN  IF NoBracket(pos_points, neg_points) THEN None
        ELSE IF pos_points = {} \/ neg_points = {}
        THEN [kind |-> "ValueError"]       \* min() of an empty list
        ELSE LET p_a == RowPoint(d, ClosestRow(pos_points))
                 p_b == RowPoint(d, ClosestRow(neg_points))
                 dist_a_b == get_sqr_dist(p_a, p_b)
                 dist_test_a == get_sqr_dist(p_a, point)
                 delta == p_b.date - p_a.date
                 part == Isqrt((delta * delta * dist_test_a) \div dist_a_b)
             IN  [kind |-> "date",
                  date |-> p_a.date + (IF delta < 0 THEN -part ELSE part)]

\* faulty variant: the two coordinates are checked jointly
lazy_is_track_pointJoint(x, y) ==
    \E i \in 1..Len(sorted_points) :
        sorted_points[i].x = x /\ sorted_points[i].y = y

\* lazy_is_track_point
lazy_is_track_point(x, y) ==
    x \in SeqRange(sorted_x) /\ y \in SeqRange(sorted_y)

\* (drv_pos['Date'] - query_date).abs().argsort()[:2]: the two rows closest in
\* time, the closer one first; argsort does not say which of two rows at the
\* same distance comes first
ClosestTwo(d, query_date) ==
    LET away(i) == Abs(pos_dates[d][i] - query_date)
        rows == 1..Len(pos_data[d])
    IN  {c \in rows \X rows :
            /\ c[1] # c[2]
            /\ away(c[1]) <= away(c[2])
            /\ \A j \in rows \ {c[1], c[2]} : away(c[2]) <= away(j)}

\* interpolate_pos_from_time, for the two closest rows: None, or the
\* interpolated point with each coordinate x as the fraction <<a, b>>, x = a/b
interpolate_pos_from_time(d, query_date, closest) ==
    LET row0 == RowPoint(d, closest[1])
        row1 == RowPoint(d, closest[2])
        delta_t == row1.date - row0.date
        interp_delta_t == query_date - row0.date
        Fraction(a, b) == IF b < 0 THEN <<-a, -b>> ELSE <<a, b>>
    IN  IF ~(lazy_is_track_point(row0.x, row0.y)
             /\ lazy_is_track_point(row1.x, row1.y))
        THEN None
        ELSE [kind |-> "point",
              x |-> Fraction(row0.x * delta_t + (row1.x - row0.x) * interp_delta_t,
                             delta_t),
              y |-> Fraction(row0.y * delta_t + (row1.y - row0.y) * interp_delta_t,
                             delta_t)]

\* faulty variant: out-laps are not skipped
SkippedLapOutLaps(lap, all_laps) ==
    \/ lap.NumberOfLaps = Null
    \/ lap.NumberOfLaps = 1
    \/ \A i \in 1..Len(all_laps) : all_laps[i].NumberOfLaps <= lap.NumberOfLaps
    \/ lap.PitInTime # Null

\* first lap, last lap, in-lap, out-lap and laps with no lap number are skipped
SkippedLap(lap, all_laps) ==
    LET \* ...NumberOfLaps.max()
        drv_last_lap ==
            CHOOSE n \in {all_laps[i].NumberOfLaps : i \in 1..Len(all_laps)} :
                \A i \in 1..Len(all_laps) : all_laps[i].NumberOfLaps <= n
    IN  \/ lap.NumberOfLaps = Null
        \/ lap.NumberOfLaps \in {1, drv_last_lap}
        \/ lap.PitInTime # Null
        \/ lap.PitOutTime # Null

\* for_driver(drv, test_point) for the first driver: one pass of the loop over
\* the laps of the driver
ForDriverLap ==
    /\ tpc = "ready"
    /\ fpc = "running"
    /\ lap_n < Len(laps)
    /\ LET lap == laps[lap_n + 1]
           test_date == get_test_date(lap, 1, fd_point)
       IN  IF SkippedLap(lap, laps) \/ test_date = None
           THEN /\ lap_n' = lap_n + 1
                /\ UNCHANGED <<res_x, res_y, fpc>>
           ELSE IF test_date.kind = "ValueError"
           THEN /\ fpc' = "raised"
                /\ UNCHANGED <<res_x, res_y, lap_n>>
           ELSE \E closest \in ClosestTwo(1, test_date.date - lap.LastLapTime) :
                   LET lap_start_point ==
                           interpolate_pos_from_time(
                               1, test_date.date - lap.LastLapTime, closest)
                   IN  IF lap_start_point = None
                       THEN /\ fpc' = "raised"   \* None.x: AttributeError
                            /\ UNCHANGED <<res_x, res_y, lap_n>>
                       ELSE /\ res_x' = Append(res_x, lap_start_point.x)
                            /\ res_y' = Append(res_y, lap_start_point.y)
                            /\ lap_n' = lap_n + 1
                            /\ UNCHANGED fpc
    /\ UNCHANGED <<pos_dates, laps, fd_point, cond, solverVars, trackVars, call,
                   outlierVars>>

\* return {'x': res_x, 'y': res_y}
ForDriverReturn ==
    /\ tpc = "ready"
    /\ fpc = "running"
    /\ lap_n = Len(laps)
    /\ fpc' = "returned"
    /\ UNCHANGED <<pos_dates, laps, fd_point, lap_n, res_x, res_y, cond,
                   solverVars, trackVars, call, outlierVars>>

\* a driver with 3 to MaxPos position samples, one every 6 seconds, and four
\* laps; for_driver is called with a point of the track
ForDriverInit ==
    LET \* three neighbouring track points and a place off the track
        PosKinds ==
            {Sample(0, 0, "OnTrack"), Sample(100, 0, "OnTrack"),
             Sample(200, 0, "OnTrack"), Sample(50, 50, "OffTrack")}
        Lap(NumberOfLaps, Time, LastLapTime) ==
            [NumberOfLaps |-> NumberOfLaps, Time |-> Time,
             LastLapTime |-> LastLapTime, PitInTime |-> Null,
             PitOutTime |-> Null]
    IN  /\ \E n \in 3..MaxPos :
            \E series \in [1..n -> PosKinds] :
                /\ TrackBuilt(<<series, <<>>>>)
                /\ pos_dates = <<[i \in 1..n |-> 6 * i], <<>>>>
        /\ \E t2 \in {6, 12}, t3 \in {18, 24}, l2 \in {6, 12}, l3 \in {6, 12} :
            laps = <<Lap(1, 0, 0), Lap(2, t2, l2), Lap(3, t3, l3),
                     Lap(4, 30, 6)>>
        /\ fd_point \in {TrackPoint(x, 0, 0) : x \in {0, 100, 200}}
        /\ lap_n = 0
        /\ res_x = <<>>
        /\ res_y = <<>>
        /\ fpc = "running"
        /\ cond = NoCondition

----------------------------------------------------------------------------
(* Queries on a generated track *)

\* the indices (from 0) in p_range of p_a, the point closest to `val` in the
\* known coordinate, and of p_b, the second closest point as get_second_coord
\* picks it
ClosestInRange(val, p_range, from_coord) ==
    LET n == Len(p_range)
        Coord(p) == IF from_coord = "x" THEN p.x ELSE p.y
        distances == [i \in 1..n |-> Abs(Coord(p_range[i]) - val)]
        min_i == IndexOf(distances, Min(distances))
        \* i if distances[i] < distances[j] else j
        Closer(i, j) == IF distances[i + 1] < distances[j + 1] THEN i ELSE j
    IN  <<min_i,
          IF min_i = 0 THEN Closer(1, n - 1)
          ELSE IF min_i = n - 1 THEN Closer(0, n - 2)
          ELSE Closer(min_i + 1, min_i - 1)>>

\* get_second_coord: the point with the coordinate `val`, interpolated between
\* the two points of the arc from ref_point_1 to ref_point_2 that are closest
\* to `val` in this coordinate; the other coordinate is the fraction <<a, b>>
\* (b = 0: a division by zero)
get_second_coord(val, ref_point_1, ref_point_2, from_coord) ==
    LET p_range == get_points_between(ref_point_1, ref_point_2, TRUE, TRUE)
        closest == ClosestInRange(val, p_range, from_coord)
        p_a == p_range[closest[1] + 1]
        p_b == p_range[closest[2] + 1]
        delta_x == p_b.x - p_a.x
        delta_y == p_b.y - p_a.y
        Fraction(a, b) == IF b < 0 THEN <<-a, -b>> ELSE <<a, b>>
    IN  IF from_coord = "x"
        THEN [kind |-> "point", x |-> <<val, 1>>,
              y |-> Fraction(p_a.y * delta_x + delta_y * (val - p_a.x), delta_x)]
        ELSE [kind |-> "point",
              x |-> Fraction(p_a.x * delta_y + delta_x * (val - p_a.y), delta_y),
              y |-> <<val, 1>>]

\* faulty variant: a slice is the list itself, reverse() turns the tour round
AfterQueryAliased(list) == Reverse(list)

\* an attribute of the track after a query: the queries read the attributes and
\* work on slices and concatenations, which are new lists; insert(), append()
\* and reverse() on those leave the attribute as it was
AfterQuery(list) == list

\* the return of a query of the track
Return(op, args, ret) ==
    /\ (IF call.op = "none" THEN 0 ELSE call.n) < MaxCalls
    /\ call' = [op |-> op, args |-> args, ret |-> ret,
                n |-> IF call.op = "none" THEN 1 ELSE call.n + 1]
    /\ sorted_points' = AfterQuery(sorted_points)
    /\ excluded_points' = AfterQuery(excluded_points)
    /\ sorted_x' = AfterQuery(sorted_x)
    /\ sorted_y' = AfterQuery(sorted_y)
    /\ UNCHANGED <<pos_data, unsorted_points, next_point, tpc, run, first_run,
                   query, pnt_range, solverVars, outlierVars, conditionVars>>

\* get_closest_point(point) for a point on or off the track
QueryClosestPoint ==
    /\ tpc = "ready"
    /\ \E x \in {50, 200}, y \in {0, 300} :
        Return("get_closest_point", <<TrackPoint(x, y, 0)>>,
               get_closest_point(TrackPoint(x, y, 0)))

\* get_points_between(point1, point2, short, include_ref) from the first or the
\* last point of the tour to any point of the tour
QueryPointsBetween ==
    /\ tpc = "ready"
    /\ \E point1 \in {sorted_points[1], sorted_points[Len(sorted_points)]},
          point2 \in SeqRange(sorted_points),
          short \in BOOLEAN, include_ref \in BOOLEAN :
        Return("get_points_between", <<point1, point2, short, include_ref>>,
               get_points_between(point1, point2, short, include_ref))

\* get_second_coord(val, ref_point_1, ref_point_2, from_coord) between the
\* first or the last point of the tour and any point of the tour
QuerySecondCoord ==
    /\ tpc = "ready"
    /\ \E ref_point_1 \in {sorted_points[1], sorted_points[Len(sorted_points)]},
          ref_point_2 \in SeqRange(sorted_points), from_coord \in {"x", "y"} :
        Return("get_second_coord", <<50, ref_point_1, ref_point_2, from_coord>>,
               get_second_coord(50, ref_point_1, ref_point_2, from_coord))

\* lazy_is_track_point(x, y)
QueryIsTrackPoint ==
    /\ tpc = "ready"
    /\ \E x \in {0, 50, 200}, y \in {0, 50, 200} :
        Return("lazy_is_track_point", <<x, y>>, lazy_is_track_point(x, y))

\* interpolate_pos_from_time(drv, query_date) for the first driver
QueryInterpolate ==
    /\ tpc = "ready"
    /\ \E query_date \in {6 * i + 2 * j : i \in 1..2, j \in 0..2} :
        \E closest \in ClosestTwo(1, query_date) :
            Return("interpolate_pos_from_time", <<1, query_date>>,
                   interpolate_pos_from_time(1, query_date, closest))

----------------------------------------------------------------------------
(* for_driver of StartFinishCondition, Sector23Condition, Sector12Condition   *)
(* and AllSectorBordersCondition.  cond.res is the result dictionary and      *)
(* cond.dates records, for each value of each list, the date it was looked   *)
(* up for.                                                                    *)

\* faulty variant: AllSectors looks up the two sector borders the other way
\* round
LookupsSwapped(name, lap, test_date) ==
    IF name = "AllSectors"
    THEN <<[x |-> "x2", y |-> "y2", date |-> test_date - lap.Sector3Time],
           [x |-> "x3", y |-> "y3",
            date |-> test_date - lap.Sector3Time - lap.Sector2Time],
           [x |-> "x1", y |-> "y1", date |-> test_date - lap.LastLapTime]>>
    ELSE <<[x |-> "x", y |-> "y", date |-> test_date - lap.LastLapTime]>>

\* the calls of interpolate_pos_from_time for one lap, in the order of the
\* code: the date looked up and the keys its coordinates are appended to
Lookups(name, lap, test_date) ==
    CASE name = "StartFinish" ->
            <<[x |-> "x", y |-> "y", date |-> test_date - lap.LastLapTime]>>
      [] name = "Sector23" ->
            <<[x |-> "x", y |-> "y", date |-> test_date - lap.Sector3Time]>>
      [] name = "Sector12" ->
            <<[x |-> "x", y |-> "y",
               date |-> test_date - lap.Sector3Time - lap.Sector2Time]>>
      [] name = "AllSectors" ->
            <<[x |-> "x2", y |-> "y2",
               date |-> test_date - lap.Sector3Time - lap.Sector2Time],
              [x |-> "x3", y |-> "y3", date |-> test_date - lap.Sector3Time],
              [x |-> "x1", y |-> "y1", date |-> test_date - lap.LastLapTime]>>

\* for_driver(drv, test_point) of the condition cond.name for the first driver:
\* one pass of the loop over the laps of the driver
BorderLap ==
    /\ tpc = "ready"
    /\ fpc = "running"
    /\ cond.name # "none"
    /\ lap_n < Len(laps)
    /\ LET lap == laps[lap_n + 1]
           test_date == get_test_date(lap, 1, fd_point)
       IN  IF SkippedLap(lap, laps) \/ test_date = None
           THEN /\ lap_n' = lap_n + 1
                /\ UNCHANGED <<cond, fpc>>
           ELSE IF test_date.kind = "ValueError"
           THEN /\ fpc' = "raised"
                /\ UNCHANGED <<cond, lap_n>>
           ELSE LET lookups == Lookups(cond.name, lap, test_date.date)
                    n == Len(lookups)
                    date(i) == lookups[IF i <= n THEN i ELSE 1].date
                IN  \E c1 \in ClosestTwo(1, date(1)), c2 \in ClosestTwo(1, date(2)),
                       c3 \in ClosestTwo(1, date(3)) :
                       LET point(i) ==
                               interpolate_pos_from_time(
                                   1, date(i), <<c1, c2, c3>>[i])
                           at(k) == CHOOSE i \in 1..n :
                                       k \in {lookups[i].x, lookups[i].y}
                       IN  IF \E i \in 1..n : point(i) = None
                           THEN /\ fpc' = "raised"   \* None.x: AttributeError
                                /\ UNCHANGED <<cond, lap_n>>
                           ELSE /\ cond' =
                                      [name |-> cond.name,
                                       res |-> [k \in DOMAIN cond.res |->
                                                 Append(cond.res[k],
                                                    IF k = lookups[at(k)].x
                                                    THEN point(at(k)).x
                                                    ELSE point(at(k)).y)],
                                       dates |-> [k \in DOMAIN cond.dates |->
                                                 Append(cond.dates[k],
                                                        date(at(k)))]]
                                /\ lap_n' = lap_n + 1
                                /\ UNCHANGED fpc
    /\ UNCHANGED <<pos_dates, laps, fd_point, res_x, res_y, solverVars,
                   trackVars, call, outlierVars>>

\* return {'x': res_x, 'y': res_y}, or return res
BorderReturn ==
    /\ tpc = "ready"
    /\ fpc = "running"
    /\ cond.name # "none"
    /\ lap_n = Len(laps)
    /\ fpc' = "returned"
    /\ UNCHANGED <<pos_dates, laps, fd_point, lap_n, res_x, res_y, cond,
                   solverVars, trackVars, call, outlierVars>>

\* a driver on a line of 5 points, a position sample every 6 seconds, one of
\* them possibly off the track; four laps with sector times; for_driver of any
\* of the four conditions is called with a point of the track
InitBorders ==
    LET Lap(NumberOfLaps, Time, LastLapTime, Sector2Time, Sector3Time) ==
            [NumberOfLaps |-> NumberOfLaps, Time |-> Time,
             LastLapTime |-> LastLapTime, Sector2Time |-> Sector2Time,
             Sector3Time |-> Sector3Time, PitInTime |-> Null,
             PitOutTime |-> Null]
        line == [i \in 1..5 |-> Sample(100 * (i - 1), 0, "OnTrack")]
    IN  /\ SolverUnused
        /\ call = NoCall
        /\ OutliersUnused
        /\ \E o \in 0..5 :
            TrackBuilt(<<[i \in 1..5 |->
                            IF i = o THEN Sample(50, 50, "OffTrack") ELSE line[i]],
                         <<>>>>)
        /\ pos_dates = <<[i \in 1..5 |-> 6 * i], <<>>>>
        /\ \E t2 \in {18, 24}, s2 \in {2, 4}, s3 \in {2, 4} :
            laps = <<Lap(1, 6, 6, 2, 2), Lap(2, t2, 12, s2, s3),
                     Lap(3, 30, 12, s3, s2), Lap(4, 36, 6, 2, 2)>>
        /\ fd_point \in {TrackPoint(x, 0, 0) : x \in {100, 200, 300}}
        /\ lap_n = 0
        /\ res_x = <<>>
        /\ res_y = <<>>
        /\ fpc = "running"
        /\ \E name \in {"StartFinish", "Sector23", "Sector12", "AllSectors"} :
            cond = [name |-> name,
                    res |-> [k \in ResultKeys(name) |-> <<>>],
                    dates |-> [k \in ResultKeys(name) |-> <<>>]]

----------------------------------------------------------------------------
(* AdvancedSyncSolver._get_start_line_range for the first driver, with the    *)
(* module's `track` being the track of the solver, as in the main script.     *)

\* reject_outliers(x_coords, y_coords, m=100.0)
OutlierMultiplier == 100

\* _get_start_line_range: the end point of every usable lap, the outliers
\* rejected, the closest tour point of each remaining estimate, the short arc
\* from the estimate with the lowest tour index to the one with the highest
GetStartLineRange ==
    /\ tpc = "ready"
    /\ call = NoCall
    /\ LET IsUsable(lap) == ~SkippedLap(lap, laps)
           usable == SelectSeq(laps, IsUsable)
           n == Len(usable)
           date(i) == usable[IF i <= n THEN i ELSE 1].Time
           Raised(error) ==
               /\ call' = [op |-> "_get_start_line_range", ret |-> error,
                           points |-> <<>>]
               /\ UNCHANGED point_range
       IN  IF n = 0
           THEN Raised("ValueError")        \* min() of an empty list
           ELSE \E c1 \in ClosestTwo(1, date(1)), c2 \in ClosestTwo(1, date(2)),
                   c3 \in ClosestTwo(1, date(3)) :
               \E end_pnt \in {[i \in 1..n |->
                                  interpolate_pos_from_time(
                                      1, date(i), <<c1, c2, c3>>[i])]} :
               IF \E i \in 1..n : end_pnt[i] = None
               THEN Raised("AttributeError")        \* None.x
               ELSE \E kept \in {reject_outliers(
                                    [i \in 1..n |-> end_pnt[i].x[1] \div end_pnt[i].x[2]],
                                    <<[i \in 1..n |->
                                          end_pnt[i].y[1] \div end_pnt[i].y[2]]>>,
                                    OutlierMultiplier)} :
               IF kept.ndim = 2 /\ n > 1
               THEN Raised("ValueError")   \* min() of distances that are arrays
               ELSE \* the one row of a two-dimensional result is an array of
                    \* one value here
                    \E xs \in {IF kept.ndim = 2 THEN kept.data[1] ELSE kept.data},
                       ys \in {IF kept.ndim = 2 THEN kept.secondary[1][1]
                               ELSE kept.secondary[1]} :
                    \E points \in {[i \in 1..Len(xs) |->
                                     get_closest_point(TrackPoint(xs[i], ys[i], 0))]} :
                    \E index_on_track \in {[i \in 1..Len(xs) |->
                                             IndexOf(sorted_points, points[i])]} :
                    LET Highest == CHOOSE v \in SeqRange(index_on_track) :
                                       \A u \in SeqRange(index_on_track) : u <= v
                        point_a ==
                            points[IndexOf(index_on_track, Min(index_on_track)) + 1]
                        point_b == points[IndexOf(index_on_track, Highest) + 1]
                    IN  /\ point_range' =
                               get_points_between(point_a, point_b, TRUE, TRUE)
                        /\ call' = [op |-> "_get_start_line_range",
                                    ret |-> "point_range", points |-> points]
    /\ UNCHANGED <<conditions, number_of_processes, task_queue, result_queue,
                   command_queue, cpc, offset, put_count, idle_count, res,
                   results, wpc, wtask, w_results, stopped, reports,
                   trackVars, outlierVars, conditionVars>>

\* the square tour of one driver, a position sample every 6 seconds, and five
\* laps; the second, third and fourth lap end at the time of a sample, and the
\* third, the third and fourth, or all three of them may be in-laps
InitStartLine ==
    LET Lap(NumberOfLaps, Time, in_lap) ==
            [NumberOfLaps |-> NumberOfLaps, Time |-> Time, LastLapTime |-> 6,
             PitInTime |-> IF in_lap THEN Time ELSE Null, PitOutTime |-> Null]
    IN  /\ SolverUnused
        /\ SquareTourInit
        /\ call = NoCall
        /\ OutliersUnused
        /\ pos_dates = <<[i \in 1..Len(pos_data[1]) |-> 6 * i], <<>>>>
        /\ \E i2 \in 2..9, i3 \in 2..9, i4 \in 2..9,
              in_laps \in {{}, {3}, {3, 4}, {2, 3, 4}} :
            /\ i2 < i3
            /\ i3 < i4
            /\ laps = <<Lap(1, 6, FALSE), Lap(2, 6 * i2, 2 \in in_laps),
                        Lap(3, 6 * i3, 3 \in in_laps),
                        Lap(4, 6 * i4, 4 \in in_laps), Lap(5, 60, FALSE)>>
        /\ fd_point = NoPoint
        /\ lap_n = 0
        /\ res_x = <<>>
        /\ res_y = <<>>
        /\ fpc = "unused"
        /\ cond = NoCondition

----------------------------------------------------------------------------
(* BaseDataFrame, _BaseSeriesConstructor and BaseSeries.  A class is known by *)
(* its name, an index object by its identity `id` and its labels; None is the *)
(* class "None" and the index with the id "None".                             *)

\* _constructor: self.__class__
constructor(cls) == cls

\* _constructor_sliced_vertical: pandas.Series, unless the class overrides it
constructor_sliced_vertical(cls) ==
    IF cls = "CustomFrame" THEN "CustomColumn" ELSE "Series"

\* _constructor_sliced_horizontal: pandas.Series, unless the class overrides it
constructor_sliced_horizontal(cls) ==
    IF cls = "CustomFrame" THEN "CustomRow" ELSE "Series"

\* faulty variant: indices with equal labels count as the same
IsEqual(a, b) == a.labels = b.labels

\* a is b
Is(a, b) == a.id = b.id

\* _BaseSeriesConstructor.__new__: the class of the object that is returned
BaseSeriesConstructorNew(parent, data_index, index_arg) ==
    LET index == IF index_arg.id = "None" THEN data_index ELSE index_arg
    IN  IF parent.class = "None" \/ index.id = "None" THEN "Series"
        ELSE IF Is(parent.index, index)
        THEN constructor_sliced_vertical(parent.class)
        ELSE constructor_sliced_horizontal(parent.class)

\* a one-dimensional slice: parent._constructor_sliced(data, index)
SliceSeries ==
    /\ call.op = "args"
    /\ call' = [call EXCEPT
                   !.op = "sliced",
                   !.ret = BaseSeriesConstructorNew(call.parent, call.data_index,
                                                    call.index)]
    /\ UNCHANGED <<solverVars, trackVars, outlierVars, conditionVars>>

\* a same-dimensional slice: parent._constructor(...)
SliceFrame ==
    /\ call.op = "args"
    /\ call.parent.class # "None"
    /\ call' = [call EXCEPT !.op = "same",
                            !.ret = constructor(call.parent.class)]
    /\ UNCHANGED <<solverVars, trackVars, outlierVars, conditionVars>>

\* a frame of any of three classes (or none) whose index is the object "a",
\* data with or without an index, and an index argument or none; the index
\* "b" is another object with the labels of "a"
SliceInit ==
    LET Index(id, labels) == [id |-> id, labels |-> labels]
        Indices == {Index("None", "None"), Index("a", "rows"),
                    Index("b", "rows"), Index("c", "columns")}
    IN  call \in [op : {"args"},
                  parent : [class : {"None", "BaseDataFrame", "Laps",
                                     "CustomFrame"},
                            index : {Index("a", "rows")}],
                  data_index : Indices,
                  index : Indices,
                  ret : {"None"}]

SortPoints == SortStart \/ SortStep \/ SortLast

InitTrack == SolverUnused /\ TrackInit /\ OthersUnused

InitLine == SolverUnused /\ LineInit /\ OthersUnused

InitSquare == SolverUnused /\ SquareInit /\ OthersUnused

InitSquareTour == SolverUnused /\ SquareTourInit /\ OthersUnused

InitForDriver ==
    /\ SolverUnused
    /\ ForDriverInit
    /\ call = NoCall
    /\ OutliersUnused

\* the square tour of one driver, a position sample every 6 seconds
InitReadOnly ==
    /\ SolverUnused
    /\ SquareTourInit
    /\ call = NoCall
    /\ OutliersUnused
    /\ pos_dates = <<[i \in 1..Len(pos_data[1]) |-> 6 * i], <<>>>>
    /\ laps = <<>>
    /\ fd_point = NoPoint
    /\ lap_n = 0
    /\ res_x = <<>>
    /\ res_y = <<>>
    /\ fpc = "unused"
    /\ cond = NoCondition

\* a driver on a track of three points, with four laps that end 6 seconds
\* apart; any lap may lack its number and may have a pit-in or a pit-out time
InitLaps ==
    /\ SolverUnused
    /\ call = NoCall
    /\ OutliersUnused
    /\ TrackBuilt(<<<<Sample(0, 0, "OnTrack"), Sample(100, 0, "OnTrack"),
                      Sample(200, 0, "OnTrack"), Sample(100, 0, "OnTrack"),
                      Sample(0, 0, "OnTrack")>>, <<>>>>)
    /\ pos_dates = <<[i \in 1..5 |-> 6 * i], <<>>>>
    /\ \E known \in SUBSET (1..4), in_laps \in SUBSET (1..4),
          out_laps \in SUBSET (1..4) :
        laps = [i \in 1..4 |->
                   [NumberOfLaps |-> IF i \in known THEN i ELSE Null,
                    Time |-> 6 * i, LastLapTime |-> 6,
                    PitInTime |-> IF i \in in_laps THEN 6 * i ELSE Null,
                    PitOutTime |-> IF i \in out_laps THEN 6 * i - 5 ELSE Null]]
    /\ fd_point \in {TrackPoint(x, 0, 0) : x \in {100, 200}}
    /\ lap_n = 0
    /\ res_x = <<>>
    /\ res_y = <<>>
    /\ fpc = "running"
    /\ cond = NoCondition

InitSlice ==
    /\ SolverUnused
    /\ TrackUnused
    /\ OutliersUnused
    /\ ConditionUnused
    /\ SliceInit

\* one driver on a line of 9 to MaxLine points spaced 100 apart: a sample at
\* the first point, two samples at any points of the line (the reference
\* samples of _determine_track_direction), then the line from end to end
InitLongLine ==
    /\ SolverUnused
    /\ OthersUnused
    /\ \E n \in 9..MaxLine :
        \E a \in 1..n, b \in 1..n :
            TrackBuilt(<<<<LineFrames(n)[1][1], LineFrames(n)[1][a],
                           LineFrames(n)[1][b]>> \o LineFrames(n)[1], <<>>>>)

\* the square tour of one driver with a sample that is off the track after the
\* first, second or third sample: in the middle of the square, where x is the
\* x of one tour point and y the y of another one, or at a place that shares
\* no coordinate with the tour; a position sample every 6 seconds
InitInterpolate ==
    /\ SolverUnused
    /\ call = NoCall
    /\ OutliersUnused
    /\ \E k \in 1..8, forwards \in BOOLEAN, o \in 1..3,
          c \in {<<100, 100>>, <<50, 50>>} :
        LET stream == SquareStream(k, forwards, 0, k, FALSE)
            series == SubSeq(stream, 1, o) \o <<Sample(c[1], c[2], "OffTrack")>>
                      \o SubSeq(stream, o + 1, Len(stream))
        IN  /\ TrackBuilt(<<series, <<>>>>)
            /\ pos_dates = <<[i \in 1..Len(series) |-> 6 * i], <<>>>>
    /\ laps = <<>>
    /\ fd_point = NoPoint
    /\ lap_n = 0
    /\ res_x = <<>>
    /\ res_y = <<>>
    /\ fpc = "unused"
    /\ cond = NoCondition

InitOutliers ==
    /\ SolverUnused
    /\ TrackUnused
    /\ call = NoCall
    /\ OutliersArguments
    /\ ConditionUnused

NextTrack == SortPoints \/ DetermineTrackDirection \/ FillCoordinates

NextTwoRuns == SortPoints \/ SecondRun

NextQuery == NextTrack \/ GetPointsBetween

\* Track(pos) and generate_track() on bounded position data
SpecTrack == InitTrack /\ [][NextTrack]_vars

\* _sort_points run twice on the same position data
SpecTwoRuns == InitTrack /\ [][NextTwoRuns]_vars

\* generate_track() for a driver on a line of points, then arc queries
SpecQuery == InitLine /\ [][NextQuery]_vars

\* generate_track() on the samples of a square walk
SpecSquare == InitSquare /\ [][NextTrack]_vars

\* generate_track() on a square walk, then arc queries
SpecSquareTour == InitSquareTour /\ [][NextQuery]_vars

NextForDriver == NextTrack \/ ForDriverLap \/ ForDriverReturn

\* generate_track(), then for_driver for the first driver and a test point
SpecForDriver == InitForDriver /\ [][NextForDriver]_vars

NextReadOnly ==
    \/ NextTrack
    \/ QueryClosestPoint
    \/ QueryPointsBetween
    \/ QuerySecondCoord
    \/ QueryIsTrackPoint
    \/ QueryInterpolate

\* generate_track(), then queries of the track in any order
SpecReadOnly == InitReadOnly /\ [][NextReadOnly]_vars

\* generate_track(), then for_driver on laps of every kind
SpecLaps == InitLaps /\ [][NextForDriver]_vars

\* slices of frames that inherit from BaseDataFrame
SpecSlice == InitSlice /\ [][SliceSeries \/ SliceFrame]_vars

\* generate_track() on a long line
SpecLongLine == InitLongLine /\ [][NextTrack]_vars

\* generate_track(), then interpolate_pos_from_time between samples on and off
\* the track
SpecInterpolate == InitInterpolate /\ [][NextTrack \/ QueryInterpolate]_vars

\* generate_track(), then for_driver of one of the four sector border
\* conditions
SpecBorders == InitBorders /\ [][NextTrack \/ BorderLap \/ BorderReturn]_vars

\* generate_track(), then _get_start_line_range
SpecStartLine == InitStartLine /\ [][NextTrack \/ GetStartLineRange]_vars

\* calls of reject_outliers
SpecOutliers == InitOutliers /\ [][RejectOutliers]_vars

----------------------------------------------------------------------------
(* Properties of the worker pool *)

AllSamples(dict) ==
    UNION {UNION {SeqRange(dict[name][key]) : key \in DOMAIN dict[name]} :
           name \in DOMAIN dict}

TaskSamples(c_index, key, point) ==
    UNION {SeqRange(for_driver(c_index, drivers[d], point)[key]) :
           d \in 1..Len(drivers)}

InIteration == cpc \in {"put_tasks", "put_returns", "wait"}

\* C1: when _wait_for_results has returned for a test point (before
\* _resume_all), the joined results hold, for every condition and key, the
\* samples of every (condition, driver, test point) task of this iteration,
\* each exactly once: nothing dropped, nothing duplicated.
C1_BarrierCollectsEveryTaskOnce ==
    cpc = "score" =>
        /\ DOMAIN res = 1..Len(conditions)
        /\ \A c_index \in 1..Len(conditions) :
            /\ DOMAIN res[c_index] = ResultKeys(conditions[c_index])
            /\ \A key \in ResultKeys(conditions[c_index]) :
                /\ SeqRange(res[c_index][key]) = TaskSamples(c_index, key, test_point)
                /\ Len(res[c_index][key]) =
                       Cardinality(TaskSamples(c_index, key, test_point))

C1_Witness ==
    /\ cpc = "score"
    /\ number_of_processes >= 2
    /\ offset = 3
    /\ Len(res[1]["x"]) = 3

\* C2: whenever _wait_for_results has returned, every subprocess is idle: it
\* waits on the command queue with an empty result dictionary and no task in
\* hand, and the task queue holds neither a task nor a return command.
C2_AllIdleAfterWait ==
    (cpc = "score" \/ (cpc = "exit_all" /\ put_count = 0)) =>
        /\ \A w \in Processes :
            /\ wpc[w] = "get_cmd"
            /\ wtask[w] = NoTask
            /\ w_results[w] = EmptyDict
        /\ task_queue = <<>>
        /\ result_queue = <<>>

C2_Witness ==
    /\ cpc = "exit_all"
    /\ put_count = 0
    /\ number_of_processes >= 2
    /\ offset >= 3
    /\ \A w \in Processes : wpc[w] = "get_cmd"

\* C3: iterations never overlap: a task in the task queue or in a subprocess
\* is a task of the current test point and exists only before the wait for
\* this test point has returned; every sample a subprocess holds, every report
\* in the result queue and the results being joined belong to the current test
\* point; scoring starts only when all reports have been received.
C3_NoOverlap ==
    /\ \A i \in 1..Len(task_queue) :
        task_queue[i].kind = "task" =>
            InIteration /\ task_queue[i].point = test_point
    /\ \A w \in Processes :
        /\ wtask[w].kind = "task" => InIteration /\ wtask[w].point = test_point
        /\ \A s \in AllSamples(w_results[w]) :
               InIteration /\ s.point = test_point
    /\ \A i \in 1..Len(result_queue) :
        \A s \in AllSamples(result_queue[i]) :
            InIteration /\ s.point = test_point
    /\ cpc \in {"wait", "score", "resume"} =>
        \A s \in AllSamples(res) : s.point = test_point
    /\ cpc = "score" =>
        /\ idle_count = number_of_processes
        /\ result_queue = <<>>
        /\ \A w \in Processes : wpc[w] \notin {"process", "report"}

C3_Witness ==
    /\ cpc = "wait"
    /\ offset = 3
    /\ idle_count >= 1
    /\ \E w \in Processes : wpc[w] = "process" /\ wtask[w].point = test_point

\* C4: without a crash and under fair scheduling solve() terminates: the final
\* reports are received, every subprocess takes one exit command and ends, all
\* queues are empty and _join_all returns.
C4_SolveTerminates ==
    <>(/\ cpc = "done"
       /\ \A w \in Processes : wpc[w] = "exited"
       /\ task_queue = <<>>
       /\ result_queue = <<>>
       /\ command_queue = <<>>)

C4_Witness ==
    /\ cpc = "done"
    /\ number_of_processes >= 2
    /\ offset >= 6
    /\ \A w \in Processes : wpc[w] = "exited"

RunningPositions == {"get_task", "process", "report"}

BarrierPasses ==
    /\ cpc \in {"wait", "final_wait"}
    /\ cpc' \in {"score", "exit_all"}

\* C5 as stated: once any subprocess has stopped, at whatever point, no wait
\* for results returns any more.
C5_AnyStopBlocks ==
    [][(\E w \in Processes : stopped[w] # "no") => ~BarrierPasses]_vars

\* C5 (amended): once a subprocess has stopped while it was running (pulling a
\* task, processing one, or about to report), no wait for results returns any
\* more, so solve() never returns.
C5_RunningStopBlocks ==
    [][(\E w \in Processes : stopped[w] \in RunningPositions)
           => (~BarrierPasses /\ cpc' # "done")]_vars

C5_Witness ==
    /\ cpc = "wait"
    /\ number_of_processes >= 2
    /\ idle_count = number_of_processes - 1
    /\ \E w \in Processes : stopped[w] = "process"
    /\ \A w \in Processes : stopped[w] = "no" => wpc[w] = "get_cmd"

----------------------------------------------------------------------------
(* Properties of the tour construction *)

SortCompleted == tpc \in {"sorted", "directed", "ready"}

\* C6: when _sort_points has completed, unsorted_points is empty and
\* sorted_points and excluded_points together hold as many points as
\* unsorted_points held at the start.
C6_Conservation ==
    SortCompleted =>
        /\ unsorted_points = <<>>
        /\ Len(sorted_points) + Len(excluded_points)
               = Len(UnsortedPointsFromPosData(pos_data))

C6_Witness ==
    /\ tpc = "sorted"
    /\ Len(sorted_points) >= 2
    /\ Len(excluded_points) >= 1

SameCoordinates(p, q) == p.x = q.x /\ p.y = q.y

RepeatsWithinDriver ==
    \E d \in 1..Len(pos_data) :
        \E i, j \in 1..Len(pos_data[d]) :
            /\ i < j
            /\ IsOnTrack(pos_data[d][i]) /\ pos_data[d][i] = pos_data[d][j]

RepeatsAcrossDrivers ==
    \E i \in 1..Len(pos_data[1]), j \in 1..Len(pos_data[2]) :
        IsOnTrack(pos_data[1][i]) /\ pos_data[1][i] = pos_data[2][j]

\* C7: no two entries of sorted_points have the same (x, y) coordinates,
\* during and after tour construction, whatever duplicates the position
\* series of the drivers hold.
C7_NoDuplicateCoordinates ==
    \A i, j \in 1..Len(sorted_points) :
        i # j => ~SameCoordinates(sorted_points[i], sorted_points[j])

C7_Witness ==
    /\ tpc = "ready"
    /\ Len(sorted_points) >= 2
    /\ RepeatsWithinDriver
    /\ RepeatsAcrossDrivers

----------------------------------------------------------------------------
(* Properties of get_points_between *)

Interior(arc) == SeqRange(arc) \ {query.point1, query.point2}

\* C9: for two tour points the points other than the two returned for
\* short=True and those returned for short=False are disjoint, and together
\* with the two points they are all points of sorted_points.
C9_ArcsPartitionTour ==
    query.called =>
        LET other == get_points_between(query.point1, query.point2,
                                        ~query.short, query.include_ref)
        IN  /\ Interior(pnt_range) \cap Interior(other) = {}
            /\ Interior(pnt_range) \cup Interior(other)
                   \cup {query.point1, query.point2} = SeqRange(sorted_points)

C9_Witness ==
    /\ query.called
    /\ query.point1 # query.point2
    /\ Cardinality(Interior(pnt_range)) >= 2
    /\ Cardinality(SeqRange(sorted_points) \ SeqRange(pnt_range)) >= 2

QueryWraps ==
    /\ query.called
    /\ ~TakesInner(IndexOf(sorted_points, query.point1),
                   IndexOf(sorted_points, query.point2), query.short)

\* the tour indices of two points differ by one, counted around the tour
CyclicallyAdjacent(p, q) ==
    LET n == Len(sorted_points)
        d == (IndexOf(sorted_points, q) - IndexOf(sorted_points, p)) % n
    IN  d = 1 % n \/ d = (n - 1) % n

\* C10: an arc that wraps around the end of sorted_points, returned with the
\* boundary points, starts with point1 and ends with point2, whichever of the
\* two has the larger index, and its consecutive points are cyclically
\* adjacent in the tour.
C10_WrapArcOrder ==
    (QueryWraps /\ query.include_ref) =>
        /\ Len(pnt_range) >= 2
        /\ pnt_range[1] = query.point1
        /\ pnt_range[Len(pnt_range)] = query.point2
        /\ \A k \in 1..(Len(pnt_range) - 1) :
               CyclicallyAdjacent(pnt_range[k], pnt_range[k + 1])

C10_Witness ==
    /\ QueryWraps
    /\ query.include_ref
    /\ IndexOf(sorted_points, query.point1) < IndexOf(sorted_points, query.point2)
    /\ IndexOf(sorted_points, query.point1) >= 1
    /\ IndexOf(sorted_points, query.point2) <= Len(sorted_points) - 2
    /\ Len(pnt_range) >= 4

----------------------------------------------------------------------------
(* Properties of reject_outliers *)

\* the elements of a returned array, row by row
Elements(array) == IF ro_ret.ndim = 2 THEN Combined(array) ELSE array

ConstantArray(array) ==
    array # <<>> /\ \A i \in 1..Len(array) : array[i] = array[1]

\* C11: for a constant primary array (median deviation zero) and any
\* multiplier, m = 0 included, nothing is rejected: every element of the
\* primary array and of every secondary array is returned.
C11_ZeroDeviationRejectsNothing ==
    (ro_ret.called /\ ConstantArray(ro_data)) =>
        /\ Elements(ro_ret.data) = ro_data
        /\ \A k \in 1..Len(ro_secondary) :
               Elements(ro_ret.secondary[k]) = ro_secondary[k]

Count(array, v) == Cardinality({i \in 1..Len(array) : array[i] = v})

\* |v - median| > m * mdev, on the scaled values
DeviationExceeds(v) ==
    2 * Abs(2 * v - Median2(ro_data)) > ro_m * MedianDeviation4(ro_data)

\* C12: with a median deviation other than zero a value is removed exactly
\* when its deviation from the median exceeds m times the median deviation: a
\* value whose deviation equals m times the median deviation is kept.
C12_RemovedIffExceeds ==
    (ro_ret.called /\ ro_data # <<>> /\ MedianDeviation4(ro_data) # 0) =>
        \A v \in 0..MaxValue :
            Count(ro_ret.data, v) =
                IF DeviationExceeds(v) THEN 0 ELSE Count(ro_data, v)

\* the elements of an array at the index positions `kept`, in their order
AtIndices(array, kept) ==
    LET RECURSIVE Front(_)
        Front(n) ==
            IF n = 0 THEN <<>>
            ELSE IF n \in kept THEN Append(Front(n - 1), array[n])
            ELSE Front(n - 1)
    IN  Front(Len(array))

\* C13: the returned arrays have the same length, and there is one set of
\* index positions such that the returned primary array and every returned
\* secondary array hold the elements of their argument at these positions, in
\* the original order.
C13_SameIndicesRemoved ==
    ro_ret.called =>
        /\ \A k \in 1..Len(ro_secondary) :
               Len(ro_ret.secondary[k]) = Len(ro_ret.data)
        /\ \E kept \in SUBSET (1..Len(ro_data)) :
            /\ Elements(ro_ret.data) = AtIndices(ro_data, kept)
            /\ \A k \in 1..Len(ro_secondary) :
                   Elements(ro_ret.secondary[k]) = AtIndices(ro_secondary[k], kept)

C13_Witness ==
    /\ ro_ret.called
    /\ ro_ret.ndim = 1
    /\ Len(ro_secondary) = 2
    /\ Len(ro_data) >= 4
    /\ Len(ro_ret.data) = Len(ro_data) - 1
    /\ ro_ret.secondary[1] # <<>>
    /\ ro_ret.secondary[1][1] = 20

----------------------------------------------------------------------------
(* Properties of the square tour *)

\* C14: for the 8 points of the square with one duplicate sample and one far
\* sample, in any order of the samples, tour construction ends with the 8
\* points in sorted_points and the far point alone in excluded_points.
C14_SquareSortedFarExcluded ==
    SortCompleted =>
        /\ Len(sorted_points) = 8
        /\ Len(excluded_points) = 1
        /\ \A i \in 1..Len(excluded_points) :
               excluded_points[i].x = 1000 /\ excluded_points[i].y = 1000

IsCorner(p) == p.x \in {0, 200} /\ p.y \in {0, 200}

OppositeCornersQuery ==
    /\ query.called
    /\ Len(sorted_points) = 8
    /\ IsCorner(query.point1) /\ IsCorner(query.point2)
    /\ query.point1.x # query.point2.x
    /\ query.point1.y # query.point2.y

OtherArc ==
    get_points_between(query.point1, query.point2, ~query.short,
                       query.include_ref)

\* C15 as stated: on the 8-point square tour the arcs between two opposite
\* corners for short=True and for short=False have the same length and hold
\* 2 points each.
C15_OppositeArcsTwoPoints ==
    OppositeCornersQuery =>
        /\ Len(pnt_range) = Len(OtherArc)
        /\ Len(pnt_range) = 2

\* C15 (amended): on the 8-point square tour the arcs between two opposite
\* corners for short=True and for short=False have the same length and hold
\* the same number of points: the 3 points between the corners on their side
\* of the square, and the two corners as well when include_ref is set.
C15_OppositeArcsThreePoints ==
    OppositeCornersQuery =>
        /\ Len(pnt_range) = Len(OtherArc)
        /\ Cardinality(Interior(pnt_range)) = 3
        /\ Cardinality(Interior(OtherArc)) = 3
        /\ Interior(pnt_range) \cap Interior(OtherArc) = {}
        /\ Len(pnt_range) = IF query.include_ref THEN 5 ELSE 3

C15_Witness ==
    /\ OppositeCornersQuery
    /\ query.short
    /\ query.include_ref
    /\ Len(excluded_points) = 1
    /\ Len(pnt_range) = 5

----------------------------------------------------------------------------
(* Properties of _determine_track_direction *)

\* the driver has on-track samples up to the second reference sample
EnoughSamples(d) == Len(OnTrack(pos_data[d])) >= RefIndex + 2

FirstUsableDriver ==
    CHOOSE d \in 1..Len(pos_data) :
        EnoughSamples(d) /\ \A e \in 1..(d - 1) : ~EnoughSamples(e)

\* whether the two reference samples of driver d call for a reversal
ReversalFor(d) ==
    LET p1 == OnTrack(pos_data[d])[RefIndex + 1]
        p2 == OnTrack(pos_data[d])[RefIndex + 2]
        idx1 == IndexOf(sorted_points, get_closest_point(TrackPoint(p1.X, p1.Y, 0)))
        idx2 == IndexOf(sorted_points, get_closest_point(TrackPoint(p2.X, p2.Y, 0)))
    IN  MustReverse(idx1, idx2)

\* C18: direction detection ends in one step.  If some driver has enough
\* on-track samples, the tour is reversed or kept as the two reference samples
\* of the first such driver, in driver order, decide, whatever drivers with no
\* or too few on-track samples come before; it fails with an error, the tour
\* unchanged, only if no driver has enough samples.
C18_FirstUsableDriverDecides ==
    [][(tpc = "sorted" /\ tpc' # "sorted" /\ run' = 1) =>
          IF \E d \in 1..Len(pos_data) : EnoughSamples(d)
          THEN /\ tpc' = "directed"
               /\ sorted_points' = IF ReversalFor(FirstUsableDriver)
                                   THEN Reverse(sorted_points)
                                   ELSE sorted_points
          ELSE /\ tpc' = "error"
               /\ sorted_points' = sorted_points]_vars

C18_Witness ==
    /\ tpc = "directed"
    /\ Len(OnTrack(pos_data[1])) = 1
    /\ EnoughSamples(2)
    /\ Len(sorted_points) >= 3
    /\ sorted_points[1].id > sorted_points[2].id

----------------------------------------------------------------------------
(* Properties of the results of solve *)

\* the candidate points solve evaluates: every third point of point_range
Candidates ==
    [i \in 1..((Len(point_range) + 2) \div 3) |-> point_range[3 * (i - 1) + 1]]

\* C19: when solve has returned, for every condition that was added,
\* results[condition.name] holds for every statistic key a list with one
\* entry per evaluated candidate, in candidate order, the i-th entry computed
\* from samples of the i-th candidate only.
C19_OneEntryPerCandidate ==
    cpc = "done" =>
        \A c \in 1..Len(conditions) :
            LET stats == results[conditions[c]]
            IN  /\ Len(Candidates) > 0 => DOMAIN stats = {"mean", "mad", "tx"}
                /\ \A key \in DOMAIN stats :
                    /\ Len(stats[key]) = Len(Candidates)
                    /\ \A i \in 1..Len(stats[key]) :
                        IF key = "tx" THEN stats[key][i] = Candidates[i]
                        ELSE \A k \in DOMAIN stats[key][i] :
                                \A smp \in stats[key][i][k].of :
                                    smp.point = Candidates[i]

----------------------------------------------------------------------------
(* for_driver: laps without a usable start position *)

\* the lap for_driver looks at next
NextLap == laps[lap_n + 1]

AtLap ==
    tpc = "ready" /\ fpc = "running" /\ lap_n < Len(laps)

\* the lap is not skipped and has a test date
HasTestDate(lap) ==
    /\ ~SkippedLap(lap, laps)
    /\ get_test_date(lap, 1, fd_point).kind = "date"

\* interpolate_pos_from_time yields None for the start of the lap
StartIsNone(lap) ==
    /\ HasTestDate(lap)
    /\ \A closest \in ClosestTwo(1, get_test_date(lap, 1, fd_point).date
                                      - lap.LastLapTime) :
          interpolate_pos_from_time(
              1, get_test_date(lap, 1, fd_point).date - lap.LastLapTime,
              closest) = None

LapSkipped ==
    /\ fpc' = "running"
    /\ lap_n' = lap_n + 1
    /\ UNCHANGED <<res_x, res_y>>

\* C16: when interpolate_pos_from_time yields None for the start of a lap,
\* for_driver skips the lap and goes on with the next one; no exception is
\* raised
C16_NoneStartSkipsLap ==
    [][(AtLap /\ StartIsNone(NextLap)) => LapSkipped]_vars

\* no position sample with a smaller x, or none with an x not smaller, than
\* the test point within the window around the end of the lap
LacksBracket(lap) ==
    LET window == {i \in 1..Len(pos_data[1]) :
                     /\ lap.Time - WindowSeconds < pos_dates[1][i]
                     /\ pos_dates[1][i] < lap.Time + WindowSeconds}
    IN  \/ \A i \in window : pos_data[1][i].X < fd_point.x
        \/ \A i \in window : pos_data[1][i].X >= fd_point.x

\* C17: a lap whose window of +-10 seconds has no position sample on one side
\* of the test point adds nothing to the result, and for_driver goes on with
\* the next lap without an error
C17_NoBracketSkipsLap ==
    [][(AtLap /\ LacksBracket(NextLap)) => LapSkipped]_vars

\* for_driver returned positions although a lap that was looked at had no
\* bracketing samples
C17_Witness ==
    /\ fpc = "returned"
    /\ Len(res_x) >= 1
    /\ \E k \in 1..Len(laps) :
        ~SkippedLap(laps[k], laps) /\ LacksBracket(laps[k])

----------------------------------------------------------------------------
(* The tour under queries *)

----------------------------------------------------------------------------
(* Direction of the tour *)

\* C21: when _determine_track_direction reverses the tour, any two distinct
\* tour points change their relative index order: a point with the smaller
\* index of the two before the reversal has the larger one after it (this
\* holds for every pair, across the wrap-around boundary or not)
C21_ReversalFlipsOrder ==
    [][(tpc = "sorted" /\ tpc' = "directed" /\ sorted_points' # sorted_points) =>
        \A a \in SeqRange(sorted_points), b \in SeqRange(sorted_points) :
            IndexOf(sorted_points, a) < IndexOf(sorted_points, b) =>
                /\ a \in SeqRange(sorted_points')
                /\ b \in SeqRange(sorted_points')
                /\ IndexOf(sorted_points', a) > IndexOf(sorted_points', b)]_vars

\* a tour of three or more points was reversed: the point the sort started
\* from is now the last one
C21_Witness ==
    /\ tpc = "directed"
    /\ Len(sorted_points) >= 3
    /\ sorted_points[Len(sorted_points)] = UnsortedPointsFromPosData(pos_data)[1]

----------------------------------------------------------------------------
(* for_driver: the laps that are used *)

\* the lap has a known number that is neither 1 nor the highest lap number of
\* the driver, and neither a pit-in nor a pit-out time
UsedLap(lap) ==
    /\ lap.NumberOfLaps # Null
    /\ lap.NumberOfLaps # 1
    /\ \E i \in 1..Len(laps) : laps[i].NumberOfLaps > lap.NumberOfLaps
    /\ lap.PitInTime = Null
    /\ lap.PitOutTime = Null

\* test_date - lap.LastLapTime
StartDate(lap) == get_test_date(lap, 1, fd_point).date - lap.LastLapTime

----------------------------------------------------------------------------
(* Slices of a BaseDataFrame *)

\* C24: a one-dimensional slice is built with the parent's
\* _constructor_sliced_vertical when its index is the very same object as the
\* index of the parent, with _constructor_sliced_horizontal when it is another
\* object, and with pandas.Series when there is no parent or no index; both
\* properties are pandas.Series by default; a same-dimensional slice is of the
\* class of the parent
C24_SliceConstructors ==
    /\ constructor_sliced_vertical("BaseDataFrame") = "Series"
    /\ constructor_sliced_horizontal("BaseDataFrame") = "Series"
    /\ call.op = "same" => call.ret = call.parent.class
    /\ call.op = "sliced" =>
        LET index == IF call.index.id # "None" THEN call.index
                     ELSE call.data_index
        IN  /\ (call.parent.class = "None" \/ index.id = "None") =>
                    call.ret = "Series"
            /\ (call.parent.class # "None" /\ index.id = call.parent.index.id) =>
                    call.ret = constructor_sliced_vertical(call.parent.class)
            /\ (call.parent.class # "None"
                    /\ index.id \notin {"None", call.parent.index.id}) =>
                    call.ret = constructor_sliced_horizontal(call.parent.class)

\* a frame whose class sets its own constructors was sliced with an index that
\* has the labels of the index of the frame but is another object
C24_Witness ==
    /\ call.op = "sliced"
    /\ call.parent.class = "CustomFrame"
    /\ call.index.id = "b"
    /\ call.ret = "CustomRow"

----------------------------------------------------------------------------
(* The protocol of one worker *)

\* the step takes the head of the queue
Dequeues(queue) == queue # <<>> /\ queue' = Tail(queue)

\* C25: a worker that has taken a return sentinel sends one report with all
\* the results it has accumulated and empties its accumulator; it then takes
\* nothing from the task queue until it has taken a command; after 'resume' it
\* takes tasks again, after 'exit' it takes no further step; the command queue
\* is read only by a worker that has just sent its report
C25_WorkerProtocol ==
    [][\A w \in Processes :
        /\ (wpc[w] = "get_task" /\ wpc'[w] # wpc[w]) =>
                /\ Dequeues(task_queue)
                /\ wpc'[w] = IF Head(task_queue) = ReturnCmd
                             THEN "report" ELSE "process"
        /\ wpc[w] = "report" =>
                \/ wpc'[w] = "report" /\ w_results'[w] = w_results[w]
                \/ /\ wpc'[w] = "get_cmd"
                   /\ result_queue' = Append(result_queue, w_results[w])
                   /\ w_results'[w] = EmptyDict
                   /\ UNCHANGED <<task_queue, command_queue>>
        /\ wpc[w] = "get_cmd" =>
                \/ wpc'[w] = "get_cmd" /\ w_results'[w] = EmptyDict
                \/ /\ Dequeues(command_queue)
                   /\ wpc'[w] = IF Head(command_queue) = "exit"
                                THEN "exited" ELSE "get_task"
                   /\ UNCHANGED <<task_queue, result_queue, w_results>>
        /\ wpc[w] = "exited" =>
                /\ wpc'[w] = "exited"
                /\ w_results'[w] = w_results[w]
                /\ wtask'[w] = wtask[w]
        /\ (wpc'[w] = "get_cmd" /\ wpc[w] # "get_cmd") => wpc[w] = "report"
        /\ Len(command_queue') < Len(command_queue) =>
                \E v \in Processes : wpc[v] = "get_cmd" /\ wpc'[v] # "get_cmd"
        /\ Len(result_queue') > Len(result_queue) =>
                Len(result_queue') = Len(result_queue) + 1]_vars

\* a worker has exited after a search of two test points (every third point
\* of four): it has reported and resumed before
C25_Witness ==
    /\ Len(point_range) >= 4
    /\ \E w \in Processes : wpc[w] = "exited"

----------------------------------------------------------------------------
(* Reports per worker and iteration *)

\* C26: in every iteration each return sentinel is taken by a different worker
\* and each resume command by a different worker: when _wait_for_results has
\* returned, every worker has sent exactly one report since the last scoring
C26_OneReportPerWorker ==
    cpc \in {"score", "exit_all"} => \A w \in Processes : reports[w] = 1

----------------------------------------------------------------------------
(* The merge of the reports *)

\* the list of a condition and key in a dictionary of results, empty if the
\* dictionary has none
ListOf(dict, name, key) ==
    IF name \in DOMAIN dict
    THEN (IF key \in DOMAIN dict[name] THEN dict[name][key] ELSE <<>>)
    ELSE <<>>

\* the elements of a list with the number of times each occurs
BagOf(list) ==
    [v \in SeqRange(list) |-> Cardinality({i \in 1..Len(list) : list[i] = v})]

\* the samples of all tasks of a condition, key and test point
TaskBag(c_index, key, point) ==
    LET RECURSIVE Upto(_)
        Upto(d) ==
            IF d = 0 THEN EmptyBag
            ELSE Upto(d - 1) (+) BagOf(for_driver(c_index, drivers[d], point)[key])
    IN  Upto(Len(drivers))

\* C27: every report that _wait_for_results receives is joined by appending
\* its list to the joined list, for each condition index and key; when the
\* wait has returned, the joined lists hold, as multisets, the results of all
\* tasks of the iteration, however the tasks were split and in whatever order
\* the reports came
C27_MergeConcatenatesReports ==
    /\ [][(cpc \in {"wait", "final_wait"} /\ idle_count' = idle_count + 1) =>
            \A c_index \in 1..Len(conditions) :
                \A key \in ResultKeys(conditions[c_index]) :
                    ListOf(res', c_index, key) =
                        ListOf(res, c_index, key)
                            \o ListOf(Head(result_queue), c_index, key)]_vars
    /\ [](cpc = "score" =>
            \A c_index \in 1..Len(conditions) :
                \A key \in ResultKeys(conditions[c_index]) :
                    BagOf(ListOf(res, c_index, key))
                        = TaskBag(c_index, key, test_point))

\* the first of two reports has been joined and holds a part of the results
\* of the iteration: the tasks were split between the workers
C27_Witness ==
    /\ cpc = "wait"
    /\ idle_count = 1
    /\ Len(ListOf(res, 1, "x")) \in {1, 2}
    /\ result_queue # <<>>
    /\ Len(ListOf(Head(result_queue), 1, "x")) \in {1, 2}

----------------------------------------------------------------------------
(* The steps of _sort_points *)

\* the index (from 1) of the first unsorted point at the smallest distance
\* from the current point
FirstNearest ==
    CHOOSE i \in 1..Len(unsorted_points) :
        /\ \A j \in 1..Len(unsorted_points) :
              get_sqr_dist(next_point, unsorted_points[i])
                  <= get_sqr_dist(next_point, unsorted_points[j])
        /\ \A j \in 1..(i - 1) :
              get_sqr_dist(next_point, unsorted_points[i])
                  < get_sqr_dist(next_point, unsorted_points[j])

\* the current point goes to excluded_points if `far`, to sorted_points if not
Placed(far) ==
    IF far
    THEN /\ excluded_points' = Append(excluded_points, next_point)
         /\ UNCHANGED sorted_points
    ELSE /\ sorted_points' = Append(sorted_points, next_point)
         /\ UNCHANGED excluded_points

\* C28: in _sort_points the next current point is the first unsorted point at
\* the smallest distance from the current point; the current point is put in
\* excluded_points exactly when that distance is greater than 200, the final
\* leftover point exactly when its distance to the last sorted point is
\* greater than 200, and in every other case the point is appended to
\* sorted_points
C28_NearestNextFarExcluded ==
    [][(tpc = "sorting" /\ run = 1) =>
        IF unsorted_points # <<>>
        THEN /\ next_point' = unsorted_points[FirstNearest]
             /\ unsorted_points' = WithoutIndex(unsorted_points, FirstNearest - 1)
             /\ Placed(get_sqr_dist(next_point, unsorted_points[FirstNearest])
                           > 200)
        ELSE Placed(/\ sorted_points # <<>>
                    /\ get_sqr_dist(next_point,
                                    sorted_points[Len(sorted_points)]) > 200)]_vars

----------------------------------------------------------------------------
(* The 90% rule of _determine_track_direction *)

\* the index in sorted_points of the tour point closest to the k-th reference
\* sample (k = 1, 2) of the driver that is used
RefIdx(k) ==
    LET row == OnTrack(pos_data[RefDriver(1)])[RefIndex + k]
    IN  IndexOf(sorted_points, get_closest_point(TrackPoint(row.X, row.Y, 0)))

\* C29: _determine_track_direction reverses sorted_points exactly when the
\* tour index of the first reference sample is greater than that of the second
\* and their difference is not greater than 90% of the length of the tour; in
\* every other case sorted_points stays as it is; excluded_points is never
\* changed
C29_ReverseUnlessWrap ==
    [][(tpc = "sorted" /\ run = 1) =>
        /\ excluded_points' = excluded_points
        /\ sorted_points' =
              IF /\ RefDriver(1) # 0
                 /\ RefIdx(1) > RefIdx(2)
                 /\ 10 * (RefIdx(1) - RefIdx(2)) <= 9 * Len(sorted_points)
              THEN Reverse(sorted_points)
              ELSE sorted_points]_vars

\* the first reference sample is at the end of the tour and the second at its
\* start, more than 90% of the tour apart: the tour was not reversed
C29_Witness ==
    /\ tpc = "directed"
    /\ RefIdx(1) > RefIdx(2)
    /\ 10 * (RefIdx(1) - RefIdx(2)) > 9 * Len(sorted_points)

----------------------------------------------------------------------------
(* get_closest_point *)

\* the indices (from 1) of the tour points at the smallest |dx| + |dy| from
\* `point`
Nearest(point) ==
    {i \in 1..Len(sorted_points) :
        \A j \in 1..Len(sorted_points) :
            Abs(sorted_points[i].x - point.x) + Abs(sorted_points[i].y - point.y)
                <= Abs(sorted_points[j].x - point.x)
                       + Abs(sorted_points[j].y - point.y)}

\* C30: get_closest_point returns the tour point at the smallest distance
\* |dx| + |dy| from the query point, the one with the lowest index if there
\* are several; for a query at a tour point it returns that point, and
\* get_closest_point of the result is the result
C30_ClosestPoint ==
    call.op = "get_closest_point" =>
        /\ \E i \in Nearest(call.args[1]) :
            /\ call.ret = sorted_points[i]
            /\ \A j \in Nearest(call.args[1]) : i <= j
        /\ \A i \in 1..Len(sorted_points) :
            (/\ sorted_points[i].x = call.args[1].x
             /\ sorted_points[i].y = call.args[1].y) => call.ret = sorted_points[i]
        /\ get_closest_point(call.ret) = call.ret

\* a query half way between two tour points has returned the one with the
\* lower index
C30_Witness ==
    /\ call.op = "get_closest_point"
    /\ Cardinality(Nearest(call.args[1])) = 2
    /\ \E i \in Nearest(call.args[1]), j \in Nearest(call.args[1]) :
        i < j /\ call.ret = sorted_points[i]

----------------------------------------------------------------------------
(* get_points_between: which arc is the short one *)

\* the points of a returned arc without the two reference points
Between(arc, include_ref) ==
    IF include_ref THEN Slice(arc, 1, Len(arc) - 1) ELSE arc

\* C31: with short=True get_points_between returns the direct index slice
\* between the two points when their index difference is less than half the
\* length of the tour, and the arc around the ends of the list otherwise; with
\* short=False it is the other way round; the arc for short=True never has more
\* points than the arc for short=False for the same two points
C31_ShortArcIsDirectSlice ==
    (tpc = "ready" /\ query.called) =>
        LET i1 == IndexOf(sorted_points, query.point1)
            i2 == IndexOf(sorted_points, query.point2)
            lo == IF i1 < i2 THEN i1 ELSE i2
            hi == IF i1 < i2 THEN i2 ELSE i1
            n == Len(sorted_points)
            direct == (2 * (hi - lo) < n) = query.short
            between == Between(pnt_range, query.include_ref)
        IN  /\ IF direct
               THEN between = [k \in 1..(hi - lo - 1) |-> sorted_points[lo + 1 + k]]
               ELSE /\ Len(between) = n - (hi - lo) - 1
                    /\ SeqRange(between) =
                          {sorted_points[k] : k \in (1..lo) \cup ((hi + 2)..n)}
            /\ Len(get_points_between(query.point1, query.point2, TRUE,
                                      query.include_ref))
                  <= Len(get_points_between(query.point1, query.point2, FALSE,
                                            query.include_ref))

\* the short arc between two points more than half the tour apart was asked
\* for and goes around the ends of the list
C31_Witness ==
    /\ tpc = "ready"
    /\ query.called
    /\ query.short
    /\ 2 * Abs(IndexOf(sorted_points, query.point1)
               - IndexOf(sorted_points, query.point2)) > Len(sorted_points)
    /\ Len(Between(pnt_range, query.include_ref)) >= 1

\* C32: with include_ref=True and two distinct tour points the list returned
\* by get_points_between starts with point1 and ends with point2, for the
\* direct slice and for the wrapping arc and for either order of the arguments
C32_Point1FirstPoint2Last ==
    (/\ tpc = "ready"
     /\ query.called
     /\ query.include_ref
     /\ query.point1 # query.point2) =>
        /\ pnt_range[1] = query.point1
        /\ pnt_range[Len(pnt_range)] = query.point2

----------------------------------------------------------------------------
(* interpolate_pos_from_time and the lazy check *)

\* the i-th position sample of the first driver has an x that no tour point
\* has or a y that no tour point has
FailsLazyCheck(i) ==
    \/ \A k \in 1..Len(sorted_points) : sorted_points[k].x # pos_data[1][i].X
    \/ \A k \in 1..Len(sorted_points) : sorted_points[k].y # pos_data[1][i].Y

\* the i-th position sample of the first driver is at a tour point
AtTourPoint(i) ==
    \E k \in 1..Len(sorted_points) :
        /\ sorted_points[k].x = pos_data[1][i].X
        /\ sorted_points[k].y = pos_data[1][i].Y

\* C33: interpolate_pos_from_time returns None if one of the two samples
\* nearest in time to the query has an x that is the x of no tour point or a y
\* that is the y of no tour point, and a point if neither has (on a tie in time
\* either sample may be one of the two nearest); a sample with the x of one
\* tour point and the y of another one passes although it is not at a tour
\* point
C33_NoneIffLazyCheckFails ==
    call.op = "interpolate_pos_from_time" =>
        LET pairs == ClosestTwo(call.args[1], call.args[2])
        IN  /\ (\A c \in pairs : FailsLazyCheck(c[1]) \/ FailsLazyCheck(c[2]))
                  => call.ret = None
            /\ (\A c \in pairs : ~FailsLazyCheck(c[1]) /\ ~FailsLazyCheck(c[2]))
                  => call.ret # None

\* a point was interpolated between a sample at a tour point and a sample in
\* the middle of the square, which is not at a tour point
C33_Witness ==
    /\ call.op = "interpolate_pos_from_time"
    /\ call.ret # None
    /\ \A c \in ClosestTwo(call.args[1], call.args[2]) :
        \E i \in {c[1], c[2]} : ~AtTourPoint(i) /\ ~FailsLazyCheck(i)

----------------------------------------------------------------------------
(* the dates looked up by the sector border conditions *)

\* the pass of the loop has appended to the lists x_key and y_key the
\* coordinates of the position interpolated at `date`
Appended(x_key, y_key, date) ==
    /\ cond'.dates[x_key] = Append(cond.dates[x_key], date)
    /\ cond'.dates[y_key] = Append(cond.dates[y_key], date)
    /\ \E closest \in ClosestTwo(1, date) :
        LET p == interpolate_pos_from_time(1, date, closest)
        IN  /\ p # None
            /\ cond'.res[x_key] = Append(cond.res[x_key], p.x)
            /\ cond'.res[y_key] = Append(cond.res[y_key], p.y)

\* C34: for each used lap the date looked up is the crossing time minus
\* LastLapTime for StartFinish, minus Sector3Time for Sector23 and minus
\* Sector3Time and Sector2Time for Sector12; AllSectors looks up the same three
\* dates and appends the positions to x1/y1 (start/finish), x2/y2 (sector 1/2)
\* and x3/y3 (sector 2/3); all lists of a result have the same length
C34_LookupDates ==
    [][(cond.name # "none" /\ cond' # cond) =>
        LET lap == laps[lap_n + 1]
            crossing == get_test_date(lap, 1, fd_point).date
            start_finish == crossing - lap.LastLapTime
            sector23 == crossing - lap.Sector3Time
            sector12 == crossing - lap.Sector3Time - lap.Sector2Time
        IN  /\ cond.name = "StartFinish" => Appended("x", "y", start_finish)
            /\ cond.name = "Sector23" => Appended("x", "y", sector23)
            /\ cond.name = "Sector12" => Appended("x", "y", sector12)
            /\ cond.name = "AllSectors" =>
                  /\ Appended("x1", "y1", start_finish)
                  /\ Appended("x2", "y2", sector12)
                  /\ Appended("x3", "y3", sector23)
            /\ \A j \in DOMAIN cond'.res, k \in DOMAIN cond'.res :
                  Len(cond'.res[j]) = Len(cond'.res[k])]_vars

\* for_driver of AllSectors has returned the positions of two laps, and the
\* three dates looked up for the first of them differ
C34_Witness ==
    /\ fpc = "returned"
    /\ cond.name = "AllSectors"
    /\ Len(cond.res["x1"]) = 2
    /\ cond.dates["x1"][1] # cond.dates["x2"][1]
    /\ cond.dates["x2"][1] # cond.dates["x3"][1]
    /\ cond.dates["x1"][1] # cond.dates["x3"][1]

----------------------------------------------------------------------------
(* _get_start_line_range *)

\* C35: the arc returned by _get_start_line_range starts at the tour point of
\* the retained lap-end estimate with the lowest tour index, ends at the one
\* with the highest tour index and holds the tour point of every retained
\* lap-end estimate
C35_ArcHoldsEveryEstimate ==
    (call.op = "_get_start_line_range" /\ call.ret = "point_range") =>
        LET Index(i) == IndexOf(sorted_points, call.points[i])
            kept == 1..Len(call.points)
        IN  /\ \E i \in kept :
                /\ point_range[1] = call.points[i]
                /\ \A j \in kept : Index(i) <= Index(j)
            /\ \E i \in kept :
                /\ point_range[Len(point_range)] = call.points[i]
                /\ \A j \in kept : Index(j) <= Index(i)
            /\ \A i \in kept : call.points[i] \in SeqRange(point_range)

----------------------------------------------------------------------------
(* get_second_coord *)

\* C36: in get_second_coord the second interpolation point is next to the
\* closest point in the arc returned by get_points_between, and the two points
\* differ in the known coordinate, so that the interpolation does not divide
\* by zero, for every arc of two points or more
C36_SecondPointAdjacent ==
    call.op = "get_second_coord" =>
        LET val == call.args[1]
            from_coord == call.args[4]
            p_range == get_points_between(call.args[2], call.args[3], TRUE, TRUE)
            closest == ClosestInRange(val, p_range, from_coord)
            p_a == p_range[closest[1] + 1]
            p_b == p_range[closest[2] + 1]
        IN  Len(p_range) >= 2 =>
                /\ Abs(closest[1] - closest[2]) = 1
                /\ IF from_coord = "x" THEN p_a.x # p_b.x ELSE p_a.y # p_b.y
                /\ call.ret.x[2] # 0
                /\ call.ret.y[2] # 0

----------------------------------------------------------------------------
(* _sort_points: the partitions of the input points *)

\* the input points of _sort_points
InputPoints == SeqRange(UnsortedPointsFromPosData(pos_data))

\* `front` is the start of the list `list`
IsPrefix(front, list) ==
    Len(front) <= Len(list) /\ SubSeq(list, 1, Len(front)) = front

\* C37: while _sort_points runs, every input point is in exactly one of
\* unsorted_points, sorted_points, excluded_points and the current point
\* _next_point: the three lists and the current point are disjoint, and the
\* sizes of the lists plus one are the number of input points; when the last
\* point has been placed the three lists alone hold every input point once; a
\* point placed in sorted_points or excluded_points is never moved or removed
C37_SortPartitions ==
    /\ [](((\/ tpc = "sorting"
            \/ \* stopped by the IndexError of self.sorted_points[-1]
               tpc = "error" /\ next_point # NoPoint /\ sorted_points = <<>>) =>
            /\ Len(unsorted_points) + Len(sorted_points) + Len(excluded_points) + 1
                  = Cardinality(InputPoints)
            /\ SeqRange(unsorted_points) \cup SeqRange(sorted_points)
                  \cup SeqRange(excluded_points) \cup {next_point} = InputPoints)
          /\ (tpc = "sorted" =>
            /\ Len(unsorted_points) + Len(sorted_points) + Len(excluded_points)
                  = Cardinality(InputPoints)
            /\ SeqRange(unsorted_points) \cup SeqRange(sorted_points)
                  \cup SeqRange(excluded_points) = InputPoints))
    /\ [][tpc = "sorting" =>
            /\ IsPrefix(sorted_points, sorted_points')
            /\ IsPrefix(excluded_points, excluded_points')]_vars

\* the last point has been placed; two points are sorted and two are excluded
C37_Witness ==
    /\ tpc = "sorted"
    /\ Len(sorted_points) >= 2
    /\ Len(excluded_points) >= 2

----------------------------------------------------------------------------
(* the queues when solve returns *)

\* C38: when solve returns, the task queue, the result queue and the command
\* queue are empty and every worker has returned from _run, so none is blocked
\* on a queue; a worker returns from _run only by taking an exit command off
\* the command queue, so the exit commands were taken by different workers,
\* one each
C38_QueuesEmptyAtReturn ==
    /\ [](cpc = "done" =>
            /\ task_queue = <<>>
            /\ result_queue = <<>>
            /\ command_queue = <<>>
            /\ \A w \in Processes : wpc[w] = "exited")
    /\ [][\A w \in Processes :
            /\ wpc[w] = "exited" => wpc'[w] = "exited"
            /\ (wpc[w] # "exited" /\ wpc'[w] = "exited") =>
                  /\ command_queue # <<>>
                  /\ Head(command_queue) = "exit"
                  /\ command_queue' = Tail(command_queue)
                  /\ \A v \in Processes \ {w} : wpc'[v] = wpc[v]]_vars

\* solve has returned after two test points with two workers
C38_Witness ==
    /\ cpc = "done"
    /\ number_of_processes = 2
    /\ Len(point_range) >= 4

----------------------------------------------------------------------------
(* the coordinate lists of a condition *)

\* in the dictionary `dict` the lists of every condition have the same length,
\* and the values at one index were derived from the same lap of the same
\* driver for the same test point
Aligned(dict) ==
    \A name \in DOMAIN dict :
        \A j \in DOMAIN dict[name], k \in DOMAIN dict[name] :
            /\ Len(dict[name][j]) = Len(dict[name][k])
            /\ \A i \in 1..Len(dict[name][j]) :
                /\ dict[name][j][i].drv = dict[name][k][i].drv
                /\ dict[name][j][i].lap = dict[name][k][i].lap
                /\ dict[name][j][i].point = dict[name][k][i].point

\* C39: in the results a worker has accumulated, in every report and in the
\* joined results of a test point the coordinate lists of a condition (x and
\* y, or x1 to y3) have the same length, and the i-th values of the lists were
\* derived from the same lap of the same driver, however the tasks are split
\* among the workers and in whatever order the reports arrive
C39_ListsAligned ==
    /\ \A w \in Processes : Aligned(w_results[w])
    /\ \A i \in 1..Len(result_queue) : Aligned(result_queue[i])
    /\ Aligned(res)

\* two workers have reported; the joined lists of the first condition hold
\* the laps of both drivers
C39_Witness ==
    /\ cpc = "score"
    /\ number_of_processes = 2
    /\ 1 \in DOMAIN res
    /\ Len(res[1]["x"]) = 3
    /\ \A w \in Processes : reports[w] = 1
    /\ res[1]["x"][1].drv # res[1]["x"][3].drv

====
